---- MODULE Spec2Model ----
(***************************************************************************)
(* zftpd: path resolver, command dispatcher, session worker, session pool  *)
(* with acceptor, and transfer buffer pool, as state machines.             *)
(*                                                                         *)
(* Strings are sequences of one-character strings, so that tokenisation,   *)
(* prefix comparison and case folding are computed character by character  *)
(* as the C code does.                                                     *)
(***************************************************************************)
EXTENDS Integers, Sequences, FiniteSets, TLC

(***************************************************************************)
(* Bounds of the model (scaled-down buffer sizes and input lengths)        *)
(***************************************************************************)
\* FTP_PATH_MAX scaled down (ftp_config.h: 1024 / 512 / 4096)
PathMax == 10
\* MAX_PATH_COMPONENTS scaled down (ftp_path.c: 128)
MaxComponents == 3
\* longest user-supplied path string enumerated
MaxInputLen == 5

(***************************************************************************)
(* Error codes (ftp_types.h)                                               *)
(***************************************************************************)
FTP_OK == 0
FTP_ERR_INVALID_PARAM == -1
FTP_ERR_SOCKET_ACCEPT == -6
FTP_ERR_SOCKET_SEND == -7
FTP_ERR_PATH_INVALID == -15
FTP_ERR_PATH_TOO_LONG == -16
FTP_ERR_NOT_FOUND == -17
FTP_ERR_PERMISSION == -18
FTP_ERR_TIMEOUT == -19
FTP_ERR_AUTH_FAILED == -21
FTP_ERR_PROTOCOL == -22

(***************************************************************************)
(* Path strings                                                            *)
(***************************************************************************)
PathChars == {"/", ".", "r", "a"}

RECURSIVE StringsUpTo(_)
StringsUpTo(n) ==
    IF n = 0 THEN {<<>>}
    ELSE LET shorter == StringsUpTo(n - 1)
         IN  shorter \cup {Append(s, c) : s \in {t \in shorter : Len(t) = n - 1},
                                          c \in PathChars}

PathInputs == StringsUpTo(MaxInputLen)

\* the canonical root of the session and the directories of the file system
RootPath == <<"/", "r">>
Directories == { <<"/">>, <<"/", "r">>, <<"/", "r", "/", "a">>,
                 <<"/", "r", "a">>, <<"/", "a">> }
RegularFiles == { <<"/", "r", "/", "r">>, <<"/", "r", "r">> }

\* strtok(temp, "/"): the maximal runs of characters other than '/'
RECURSIVE strtok(_, _, _)
strtok(s, cur, acc) ==
    IF s = <<>>
    THEN IF cur = <<>> THEN acc ELSE Append(acc, cur)
    ELSE IF Head(s) = "/"
         THEN strtok(Tail(s), <<>>, IF cur = <<>> THEN acc ELSE Append(acc, cur))
         ELSE strtok(Tail(s), Append(cur, Head(s)), acc)

\* the component stack of ftp_path_normalize
RECURSIVE NormalizeStack(_, _)
NormalizeStack(toks, stack) ==
    IF toks = <<>> THEN [err |-> FTP_OK, stack |-> stack]
    ELSE LET t == Head(toks) IN
         IF t = <<".">> THEN NormalizeStack(Tail(toks), stack)
         ELSE IF t = <<".", ".">>
              THEN NormalizeStack(Tail(toks),
                       IF Len(stack) > 0 THEN SubSeq(stack, 1, Len(stack) - 1)
                                         ELSE stack)
              ELSE IF Len(stack) >= MaxComponents
                   THEN [err |-> FTP_ERR_PATH_TOO_LONG, stack |-> stack]
                   ELSE NormalizeStack(Tail(toks), Append(stack, t))

\* the reconstruction loop of ftp_path_normalize
RECURSIVE NormalizeBuild(_, _, _)
NormalizeBuild(comps, out, size) ==
    IF comps = <<>> THEN [err |-> FTP_OK, out |-> out]
    ELSE IF Len(out) + Len(Head(comps)) + 2 > size
         THEN [err |-> FTP_ERR_PATH_TOO_LONG, out |-> <<>>]
         ELSE NormalizeBuild(Tail(comps), out \o <<"/">> \o Head(comps), size)

\* the path copied to the output as it is
ftp_path_normalize_plain_copy(path, size) ==
    IF Len(path) + 1 > size THEN [err |-> FTP_ERR_PATH_TOO_LONG, out |-> <<>>]
    ELSE [err |-> FTP_OK, out |-> path]

ftp_path_normalize(path, size) ==
    IF size = 0 THEN [err |-> FTP_ERR_INVALID_PARAM, out |-> <<>>]
    ELSE IF Len(path) >= PathMax THEN [err |-> FTP_ERR_PATH_TOO_LONG, out |-> <<>>]
    ELSE IF Len(path) = 0
         THEN IF size < 2 THEN [err |-> FTP_ERR_PATH_TOO_LONG, out |-> <<>>]
                          ELSE [err |-> FTP_OK, out |-> <<"/">>]
    ELSE LET st == NormalizeStack(strtok(path, <<>>, <<>>), <<>>) IN
         IF st.err # FTP_OK THEN [err |-> st.err, out |-> <<>>]
         ELSE IF st.stack = <<>>
              THEN IF size < 2 THEN [err |-> FTP_ERR_PATH_TOO_LONG, out |-> <<>>]
                               ELSE [err |-> FTP_OK, out |-> <<"/">>]
              ELSE NormalizeBuild(st.stack, <<>>, size)

ftp_path_resolve(cwd, path, size) ==
    IF size < PathMax THEN [err |-> FTP_ERR_INVALID_PARAM, out |-> <<>>]
    ELSE IF Len(path) >= PathMax THEN [err |-> FTP_ERR_PATH_TOO_LONG, out |-> <<>>]
    ELSE IF Len(path) > 0 /\ path[1] = "/"
         THEN ftp_path_normalize(path, size)
         ELSE IF Len(cwd) + Len(path) + 2 >= PathMax
              THEN [err |-> FTP_ERR_PATH_TOO_LONG, out |-> <<>>]
              ELSE ftp_path_normalize(cwd \o <<"/">> \o path, size)

\* the prefix comparison without the test of the character after the prefix
ftp_path_is_within_root_prefix_only(path, root) ==
    IF path = <<>> \/ root = <<>> THEN 0
    ELSE IF path[1] # "/" \/ root[1] # "/" THEN 0
    ELSE IF Len(root) = 1 /\ root[1] = "/" THEN 1
    ELSE IF Len(path) < Len(root) THEN 0
    ELSE IF SubSeq(path, 1, Len(root)) # root THEN 0
    ELSE 1

ftp_path_is_within_root(path, root) ==
    IF path = <<>> \/ root = <<>> THEN 0
    ELSE IF path[1] # "/" \/ root[1] # "/" THEN 0
    ELSE IF Len(root) = 1 /\ root[1] = "/" THEN 1
    ELSE IF Len(path) < Len(root) THEN 0
    ELSE IF SubSeq(path, 1, Len(root)) # root THEN 0
    ELSE IF Len(path) > Len(root) /\ path[Len(root) + 1] # "/" THEN 0
    ELSE 1

(***************************************************************************)
(* Characters (ctype.h) and number parsing (sscanf %u, strtoll)            *)
(***************************************************************************)
LowerCase == <<"a","b","c","d","e","f","g","h","i","j","k","l","m",
               "n","o","p","q","r","s","t","u","v","w","x","y","z">>
UpperCase == <<"A","B","C","D","E","F","G","H","I","J","K","L","M",
               "N","O","P","Q","R","S","T","U","V","W","X","Y","Z">>
Digits == <<"0","1","2","3","4","5","6","7","8","9">>

isspace(c) == c \in {" ", "\t", "\n", "\r", "\f"}
isdigit(c) == \E i \in 1..10 : Digits[i] = c
DigitValue(c) == (CHOOSE i \in 1..10 : Digits[i] = c) - 1

toupper(c) ==
    IF \E i \in 1..26 : LowerCase[i] = c
    THEN UpperCase[CHOOSE i \in 1..26 : LowerCase[i] = c]
    ELSE c

\* index of the first occurrence of c in s, 0 when there is none (strchr)
RECURSIVE strchr(_, _, _)
strchr(s, c, i) ==
    IF i > Len(s) THEN 0
    ELSE IF s[i] = c THEN i
    ELSE strchr(s, c, i + 1)

RECURSIVE SkipSpaces(_)
SkipSpaces(s) == IF s # <<>> /\ isspace(Head(s)) THEN SkipSpaces(Tail(s)) ELSE s

RECURSIVE TrimTrailing(_)
TrimTrailing(s) ==
    IF s # <<>> /\ isspace(s[Len(s)]) THEN TrimTrailing(SubSeq(s, 1, Len(s) - 1)) ELSE s

\* the digits of a decimal conversion: [n: digits consumed, val, rest]
RECURSIVE ScanDigits(_, _, _)
ScanDigits(s, n, val) ==
    IF s # <<>> /\ isdigit(Head(s))
    THEN ScanDigits(Tail(s), n + 1, val * 10 + DigitValue(Head(s)))
    ELSE [n |-> n, val |-> val, rest |-> s]

\* one %u conversion of sscanf: leading white space is skipped, a sign is
\* accepted, at least one digit is needed.  A negated non-zero value wraps
\* to 2^32 - val, above every octet; the model keeps it as UIntWrapped.
UIntWrapped == 256 * 256 * 256
ScanUnsigned(s) ==
    LET t == SkipSpaces(s)
        neg == t # <<>> /\ Head(t) = "-"
        u == IF t # <<>> /\ Head(t) \in {"-", "+"} THEN Tail(t) ELSE t
        d == ScanDigits(u, 0, 0)
    IN  IF d.n = 0 THEN [ok |-> FALSE, val |-> 0, rest |-> s]
        ELSE [ok |-> TRUE,
              val |-> IF neg /\ d.val > 0 THEN UIntWrapped ELSE d.val,
              rest |-> d.rest]

\* sscanf(args, "%u,%u,%u,%u,%u,%u", ...): the values converted before the
\* first mismatch
RECURSIVE ScanList(_, _, _)
ScanList(s, want, got) ==
    IF want = 0 THEN got
    ELSE LET c == ScanUnsigned(s) IN
         IF ~c.ok THEN got
         ELSE IF want = 1 THEN Append(got, c.val)
         ELSE IF c.rest # <<>> /\ Head(c.rest) = ","
              THEN ScanList(Tail(c.rest), want - 1, Append(got, c.val))
              ELSE Append(got, c.val)

\* strtoll(args, &endptr, 10): [val, rest] with rest the text at endptr
strtoll(s) ==
    LET t == SkipSpaces(s)
        neg == t # <<>> /\ Head(t) = "-"
        u == IF t # <<>> /\ Head(t) \in {"-", "+"} THEN Tail(t) ELSE t
        d == ScanDigits(u, 0, 0)
    IN  IF d.n = 0 THEN [val |-> 0, rest |-> s]
        ELSE [val |-> IF neg THEN 0 - d.val ELSE d.val, rest |-> d.rest]

(***************************************************************************)
(* Command table and command-line parsing (ftp_protocol.c)                 *)
(***************************************************************************)
FTP_ARGS_NONE == 0
FTP_ARGS_REQUIRED == 1
FTP_ARGS_OPTIONAL == 2

command_table == <<
    [name |-> <<"U","S","E","R">>, handler |-> "cmd_USER", args_req |-> FTP_ARGS_REQUIRED],
    [name |-> <<"P","A","S","S">>, handler |-> "cmd_PASS", args_req |-> FTP_ARGS_OPTIONAL],
    [name |-> <<"Q","U","I","T">>, handler |-> "cmd_QUIT", args_req |-> FTP_ARGS_NONE],
    [name |-> <<"N","O","O","P">>, handler |-> "cmd_NOOP", args_req |-> FTP_ARGS_NONE],
    [name |-> <<"C","W","D">>,     handler |-> "cmd_CWD",  args_req |-> FTP_ARGS_REQUIRED],
    [name |-> <<"C","D","U","P">>, handler |-> "cmd_CDUP", args_req |-> FTP_ARGS_NONE],
    [name |-> <<"P","W","D">>,     handler |-> "cmd_PWD",  args_req |-> FTP_ARGS_NONE],
    [name |-> <<"L","I","S","T">>, handler |-> "cmd_LIST", args_req |-> FTP_ARGS_OPTIONAL],
    [name |-> <<"N","L","S","T">>, handler |-> "cmd_NLST", args_req |-> FTP_ARGS_OPTIONAL],
    [name |-> <<"M","L","S","D">>, handler |-> "cmd_MLSD", args_req |-> FTP_ARGS_OPTIONAL],
    [name |-> <<"M","L","S","T">>, handler |-> "cmd_MLST", args_req |-> FTP_ARGS_OPTIONAL],
    [name |-> <<"R","E","T","R">>, handler |-> "cmd_RETR", args_req |-> FTP_ARGS_REQUIRED],
    [name |-> <<"S","T","O","R">>, handler |-> "cmd_STOR", args_req |-> FTP_ARGS_REQUIRED],
    [name |-> <<"A","P","P","E">>, handler |-> "cmd_APPE", args_req |-> FTP_ARGS_REQUIRED],
    [name |-> <<"R","E","S","T">>, handler |-> "cmd_REST", args_req |-> FTP_ARGS_REQUIRED],
    [name |-> <<"D","E","L","E">>, handler |-> "cmd_DELE", args_req |-> FTP_ARGS_REQUIRED],
    [name |-> <<"R","M","D">>,     handler |-> "cmd_RMD",  args_req |-> FTP_ARGS_REQUIRED],
    [name |-> <<"M","K","D">>,     handler |-> "cmd_MKD",  args_req |-> FTP_ARGS_REQUIRED],
    [name |-> <<"R","N","F","R">>, handler |-> "cmd_RNFR", args_req |-> FTP_ARGS_REQUIRED],
    [name |-> <<"R","N","T","O">>, handler |-> "cmd_RNTO", args_req |-> FTP_ARGS_REQUIRED],
    [name |-> <<"P","O","R","T">>, handler |-> "cmd_PORT", args_req |-> FTP_ARGS_REQUIRED],
    [name |-> <<"P","A","S","V">>, handler |-> "cmd_PASV", args_req |-> FTP_ARGS_NONE],
    [name |-> <<"S","I","Z","E">>, handler |-> "cmd_SIZE", args_req |-> FTP_ARGS_REQUIRED],
    [name |-> <<"M","D","T","M">>, handler |-> "cmd_MDTM", args_req |-> FTP_ARGS_REQUIRED],
    [name |-> <<"S","T","A","T">>, handler |-> "cmd_STAT", args_req |-> FTP_ARGS_OPTIONAL],
    [name |-> <<"S","Y","S","T">>, handler |-> "cmd_SYST", args_req |-> FTP_ARGS_NONE],
    [name |-> <<"F","E","A","T">>, handler |-> "cmd_FEAT", args_req |-> FTP_ARGS_NONE],
    [name |-> <<"H","E","L","P">>, handler |-> "cmd_HELP", args_req |-> FTP_ARGS_OPTIONAL],
    [name |-> <<"T","Y","P","E">>, handler |-> "cmd_TYPE", args_req |-> FTP_ARGS_REQUIRED],
    [name |-> <<"M","O","D","E">>, handler |-> "cmd_MODE", args_req |-> FTP_ARGS_REQUIRED],
    [name |-> <<"S","T","R","U">>, handler |-> "cmd_STRU", args_req |-> FTP_ARGS_REQUIRED],
    [name |-> <<"A","U","T","H">>, handler |-> "cmd_AUTH", args_req |-> FTP_ARGS_REQUIRED] >>

\* sizeof(command) in ftp_session_process_command
CommandBufSize == 64
FTP_CMD_BUFFER_SIZE == 512

\* ftp_parse_command_line: [err, command, args]
ftp_parse_command_line(line, cmd_size, args_size) ==
    LET space == strchr(line, " ", 1)
        cmd_len == IF space = 0 THEN Len(line) ELSE space - 1
        arg == IF space = 0 THEN <<>>
               ELSE TrimTrailing(SkipSpaces(SubSeq(line, space + 1, Len(line))))
    IN  IF cmd_size = 0 THEN [err |-> FTP_ERR_INVALID_PARAM, command |-> <<>>, args |-> <<>>]
        ELSE IF cmd_len = 0 \/ cmd_len >= cmd_size
        THEN [err |-> FTP_ERR_PROTOCOL, command |-> <<>>, args |-> <<>>]
        ELSE IF Len(arg) >= args_size
        THEN [err |-> FTP_ERR_PROTOCOL,
              command |-> [i \in 1..cmd_len |-> toupper(line[i])], args |-> <<>>]
        ELSE [err |-> FTP_OK,
              command |-> [i \in 1..cmd_len |-> toupper(line[i])],
              args |-> arg]

\* ftp_find_command: index of the first table entry of that name, 0 for NULL
RECURSIVE FindFrom(_, _)
FindFrom(name, i) ==
    IF i > Len(command_table) THEN 0
    ELSE IF command_table[i].name = name THEN i
    ELSE FindFrom(name, i + 1)

ftp_find_command(name) == FindFrom(name, 1)

\* a validation that enforces FTP_ARGS_REQUIRED only
ftp_validate_command_args_required_only(cmd, args) ==
    IF cmd.args_req = FTP_ARGS_REQUIRED /\ args = <<>> THEN FTP_ERR_PROTOCOL ELSE FTP_OK

\* ftp_validate_command_args; args = <<>> stands for the NULL passed for an
\* empty argument string
ftp_validate_command_args(cmd, args) ==
    LET has_args == args # <<>> IN
    IF cmd.args_req = FTP_ARGS_NONE
    THEN IF has_args THEN FTP_ERR_PROTOCOL ELSE FTP_OK
    ELSE IF cmd.args_req = FTP_ARGS_REQUIRED
    THEN IF ~has_args THEN FTP_ERR_PROTOCOL ELSE FTP_OK
    ELSE IF cmd.args_req = FTP_ARGS_OPTIONAL THEN FTP_OK
    ELSE FTP_ERR_PROTOCOL

(***************************************************************************)
(* Session (ftp_types.h, ftp_session.c)                                    *)
(***************************************************************************)
FTP_DATA_MODE_NONE == 0
FTP_DATA_MODE_ACTIVE == 1
FTP_DATA_MODE_PASSIVE == 2

FTP_STATE_INIT == 0
FTP_STATE_CONNECTED == 1
FTP_STATE_TERMINATING == 4

FTP_MAX_AUTH_ATTEMPTS == 3

\* a struct sockaddr_in: the four address bytes and the port
ZeroAddr == [ip |-> <<0, 0, 0, 0>>, port |-> 0]
\* the peer of the control connection
PeerAddr == [ip |-> <<10, 0, 0, 2>>, port |-> 12345]

\* size of every regular file of the file system
FileSize == 4

\* pal_make_sockaddr: [err, addr]; addr is left as it was when the port is 0
pal_make_sockaddr(ip, port, addr) ==
    IF port = 0 THEN [err |-> FTP_ERR_INVALID_PARAM, addr |-> addr]
    ELSE [err |-> FTP_OK, addr |-> [ip |-> ip, port |-> port]]

ftp_session_init(ctrl_fd, client_addr, session_id, root_path) ==
    [ ctrl_fd |-> ctrl_fd, ctrl_addr |-> client_addr,
      data_fd |-> -1, pasv_fd |-> -1,
      data_addr |-> ZeroAddr, data_mode |-> FTP_DATA_MODE_NONE,
      state |-> FTP_STATE_CONNECTED,
      transfer_type |-> "I", restart_offset |-> 0,
      root_path |-> root_path, cwd |-> root_path, rename_from |-> <<>>,
      auth_attempts |-> 0, authenticated |-> 0, user_ok |-> 0,
      crypto_active |-> 0, ctrl_rx_len |-> 0, ctrl_rx_off |-> 0,
      session_id |-> session_id, commands_processed |-> 0 ]

\* What a handler leaves behind: the session, the reply codes it handed to
\* ftp_session_send_reply, its return value, and the buffers it wrote to or
\* read from a socket (channel, direction, crypto.active and data_fd at that
\* moment, how many times the buffer went through ftp_crypto_xor, the reply
\* code when the buffer is a reply, 0 otherwise, whether the call on a data
\* socket failed, and for file data the offset of its first byte in the file
\* and the number of bytes).
Outcome(s) == [s |-> s, replies |-> <<>>, ret |-> FTP_OK, io |-> <<>>]

SocketIO(chan, dir, s) ==
    [chan |-> chan, dir |-> dir, active |-> s.crypto_active, xor_passes |-> 0,
     data_fd |-> s.data_fd, code |-> 0, failed |-> FALSE, first |-> 0, count |-> 0]

\* ftp_session_send_reply applied to an outcome; its result becomes ret
ftp_session_send_reply(o, code, env) ==
    IF o.s.ctrl_fd < 0 THEN [o EXCEPT !.ret = FTP_ERR_SOCKET_SEND]
    ELSE [o EXCEPT !.replies = Append(@, code),
                   !.io = Append(@, [SocketIO("ctrl", "tx", o.s) EXCEPT !.code = code]),
                   !.ret = IF env.send_ok THEN FTP_OK ELSE FTP_ERR_SOCKET_SEND]

Returning(o, err) == [o EXCEPT !.ret = err]

\* size of the reply buffers (FTP_REPLY_BUFFER_SIZE in the source, where it
\* is likewise smaller than the longest path plus the text around it)
ReplyBufSize == 34

\* "%d %s\r\n" around the message: three digits, a blank and CRLF
ReplyFrameLen == 6

\* the text of "\"%s\" is current directory." around the path
PwdTextLen == 24

\* the text of "\"%s\" created." around the path
MkdTextLen == 11

\* what snprintf with a buffer of the given size leaves in it: at most
\* size - 1 characters
Truncated(n, size) == IF n >= size THEN size - 1 ELSE n

\* ftp_session_send_reply with a message of msg_len characters made at run
\* time: ftp_format_reply returns FTP_ERR_INVALID_PARAM when code, message
\* and CRLF do not fit its buffer, and nothing is sent
ftp_session_send_reply_text(o, code, msg_len, env) ==
    IF o.s.ctrl_fd < 0 THEN [o EXCEPT !.ret = FTP_ERR_SOCKET_SEND]
    ELSE IF msg_len + ReplyFrameLen >= ReplyBufSize
         THEN [o EXCEPT !.ret = FTP_ERR_INVALID_PARAM]
         ELSE ftp_session_send_reply(o, code, env)

\* ftp_session_close_data_connection without the reset of data_mode
ftp_session_close_data_connection_keeps_mode(s) ==
    [s EXCEPT !.data_fd = -1, !.pasv_fd = -1, !.restart_offset = 0]

ftp_session_close_data_connection(s) ==
    [s EXCEPT !.data_fd = -1, !.pasv_fd = -1,
              !.data_mode = FTP_DATA_MODE_NONE, !.restart_offset = 0]

\* ftp_session_open_data_connection: [s, err]; env.data is the fate of the
\* connect or accept: "ok", "timeout" or "fail"
ftp_session_open_data_connection(s, env) ==
    IF s.data_mode = FTP_DATA_MODE_NONE THEN [s |-> s, err |-> FTP_ERR_INVALID_PARAM]
    ELSE IF s.data_mode = FTP_DATA_MODE_ACTIVE
    THEN IF env.data = "ok" THEN [s |-> [s EXCEPT !.data_fd = 0], err |-> FTP_OK]
         ELSE IF env.data = "timeout" THEN [s |-> s, err |-> FTP_ERR_TIMEOUT]
         ELSE [s |-> s, err |-> FTP_ERR_SOCKET_SEND]
    ELSE IF s.pasv_fd < 0 THEN [s |-> s, err |-> FTP_ERR_INVALID_PARAM]
    ELSE IF env.data = "timeout" THEN [s |-> [s EXCEPT !.pasv_fd = -1], err |-> FTP_ERR_TIMEOUT]
    ELSE IF env.data = "fail" THEN [s |-> s, err |-> FTP_ERR_SOCKET_ACCEPT]
    ELSE [s |-> [s EXCEPT !.data_fd = 0, !.pasv_fd = -1], err |-> FTP_OK]

ftp_session_cleanup(s) ==
    [ftp_session_close_data_connection([s EXCEPT !.state = FTP_STATE_TERMINATING])
        EXCEPT !.ctrl_fd = -1]

(***************************************************************************)
(* Command handlers (ftp_commands.c).  env holds what the platform decides *)
(* during the command: send_ok (the reply reaches the socket), data (fate  *)
(* of the data connection), fs_ok (the file-system call succeeds), xfer_ok *)
(* (the transfer loop runs to the end), sock_ok (the passive listener can  *)
(* be created).                                                            *)
(***************************************************************************)
cmd_USER(s, args, env) ==
    IF args = <<"a","n","o","n","y","m","o","u","s">> \/ args = <<"f","t","p">>
    THEN ftp_session_send_reply(Outcome([s EXCEPT !.user_ok = 1]), 331, env)
    ELSE LET t == [s EXCEPT !.user_ok = 0,
                            !.auth_attempts = IF @ < 255 THEN @ + 1 ELSE @]
         IN  IF t.auth_attempts >= FTP_MAX_AUTH_ATTEMPTS
             THEN Returning(ftp_session_send_reply(Outcome(t), 530, env),
                            FTP_ERR_AUTH_FAILED)
             ELSE ftp_session_send_reply(Outcome(t), 530, env)

cmd_PASS(s, args, env) ==
    IF s.user_ok = 0
    THEN LET t == [s EXCEPT !.auth_attempts = IF @ < 255 THEN @ + 1 ELSE @]
         IN  IF t.auth_attempts >= FTP_MAX_AUTH_ATTEMPTS
             THEN Returning(ftp_session_send_reply(Outcome(t), 530, env),
                            FTP_ERR_AUTH_FAILED)
             ELSE ftp_session_send_reply(Outcome(t), 530, env)
    ELSE ftp_session_send_reply(
             Outcome([s EXCEPT !.authenticated = 1, !.auth_attempts = 0]), 230, env)

cmd_QUIT(s, args, env) == ftp_session_send_reply(Outcome(s), 221, env)

cmd_NOOP(s, args, env) == ftp_session_send_reply(Outcome(s), 200, env)

pal_path_is_directory(path) == IF path \in Directories THEN 1 ELSE 0

pal_path_exists(path) == IF path \in Directories \cup RegularFiles THEN 1 ELSE 0

\* cmd_CWD storing the resolved path before the directory test
cmd_CWD_store_before_test(s, args, env) ==
    LET r == ftp_path_resolve(s.cwd, args, PathMax) IN
    IF r.err # FTP_OK THEN ftp_session_send_reply(Outcome(s), 550, env)
    ELSE IF pal_path_is_directory(r.out) # 1
         THEN ftp_session_send_reply(Outcome([s EXCEPT !.cwd = r.out]), 550, env)
    ELSE IF Len(r.out) >= PathMax THEN ftp_session_send_reply(Outcome(s), 550, env)
    ELSE ftp_session_send_reply(Outcome([s EXCEPT !.cwd = r.out]), 250, env)

cmd_CWD(s, args, env) ==
    LET r == ftp_path_resolve(s.cwd, args, PathMax) IN
    IF r.err # FTP_OK THEN ftp_session_send_reply(Outcome(s), 550, env)
    ELSE IF pal_path_is_directory(r.out) # 1
         THEN ftp_session_send_reply(Outcome(s), 550, env)
    ELSE IF Len(r.out) >= PathMax THEN ftp_session_send_reply(Outcome(s), 550, env)
    ELSE ftp_session_send_reply(Outcome([s EXCEPT !.cwd = r.out]), 250, env)

cmd_CDUP(s, args, env) == cmd_CWD(s, <<".", ".">>, env)

cmd_PWD(s, args, env) ==
    LET n == Len(s.cwd) + PwdTextLen IN
    IF n >= ReplyBufSize THEN Returning(Outcome(s), FTP_ERR_INVALID_PARAM)
    ELSE ftp_session_send_reply_text(Outcome(s), 257, n, env)

\* send_directory_listing and the transfer loops write to or read from the
\* data socket; the call fails when env.xfer_ok is false
DataIO(o, dir, env) ==
    [o EXCEPT !.io = Append(@, [SocketIO("data", dir, o.s)
                                   EXCEPT !.failed = ~env.xfer_ok])]

\* cmd_LIST with the terminal reply written while the data connection is
\* still open
cmd_LIST_reply_before_close(s, args, env) ==
    LET r == ftp_path_resolve(s.cwd, IF args = <<>> THEN s.cwd ELSE args, PathMax) IN
    IF r.err # FTP_OK THEN ftp_session_send_reply(Outcome(s), 550, env)
    ELSE LET o150 == ftp_session_send_reply(Outcome(s), 150, env)
             d == ftp_session_open_data_connection(s, env)
         IN  IF d.err # FTP_OK
             THEN ftp_session_send_reply([o150 EXCEPT !.s = d.s], 425, env)
             ELSE LET replied == ftp_session_send_reply([o150 EXCEPT !.s = d.s], 226, env)
                  IN  [replied EXCEPT !.s = ftp_session_close_data_connection(d.s)]

\* cmd_LIST and cmd_NLST; args = <<>> is the NULL that selects session->cwd
cmd_LIST(s, args, env) ==
    LET r == ftp_path_resolve(s.cwd, IF args = <<>> THEN s.cwd ELSE args, PathMax) IN
    IF r.err # FTP_OK THEN ftp_session_send_reply(Outcome(s), 550, env)
    ELSE LET o150 == ftp_session_send_reply(Outcome(s), 150, env)
             d == ftp_session_open_data_connection(s, env)
         IN  IF d.err # FTP_OK
             THEN ftp_session_send_reply([o150 EXCEPT !.s = d.s], 425, env)
             ELSE LET listed == IF pal_path_is_directory(r.out) = 1 /\ env.fs_ok
                                THEN DataIO([o150 EXCEPT !.s = d.s], "tx", env)
                                ELSE [o150 EXCEPT !.s = d.s]
                      closed == [listed EXCEPT
                                   !.s = ftp_session_close_data_connection(d.s)]
                  IN  IF pal_path_is_directory(r.out) = 1 /\ env.fs_ok
                      THEN ftp_session_send_reply(closed, 226, env)
                      ELSE ftp_session_send_reply(closed, 451, env)

cmd_NLST(s, args, env) == cmd_LIST(s, args, env)

cmd_MLSD(s, args, env) == cmd_LIST(s, args, env)

cmd_MLST(s, args, env) == ftp_session_send_reply(Outcome(s), 502, env)

\* the file bytes first .. first + count - 1 went out in the last data write
FileBytes(o, first, count) ==
    [o EXCEPT !.io[Len(o.io)].first = first, !.io[Len(o.io)].count = count]

\* the offset of a download without regard to REST
RetrOffset_always_zero(s) == 0

\* off_t offset = session->restart_offset
RetrOffset(s) == s.restart_offset

\* the sendfile path is taken unless crypto is active; the buffered path
\* fails (426) when ftp_buffer_acquire returns NULL, even with nothing to send.
\* The loop sends the file from offset to its end; of a transfer that fails
\* the bytes sent before the failure are not recorded.
cmd_RETR(s, args, env) ==
    LET r == ftp_path_resolve(s.cwd, args, PathMax) IN
    IF r.err # FTP_OK THEN ftp_session_send_reply(Outcome(s), 550, env)
    ELSE IF pal_path_exists(r.out) # 1 \/ ~env.fs_ok
         THEN ftp_session_send_reply(Outcome(s), 550, env)
    ELSE IF r.out \notin RegularFiles
         THEN ftp_session_send_reply(Outcome([s EXCEPT !.restart_offset = 0]), 550, env)
    ELSE IF RetrOffset(s) < 0 \/ RetrOffset(s) > FileSize
         THEN ftp_session_send_reply(Outcome([s EXCEPT !.restart_offset = 0]), 550, env)
    ELSE LET o150 == ftp_session_send_reply(Outcome(s), 150, env)
             d == ftp_session_open_data_connection(s, env)
         IN  IF d.err # FTP_OK
             THEN ftp_session_send_reply([o150 EXCEPT !.s = d.s], 425, env)
             ELSE LET remaining == FileSize - RetrOffset(s)
                      sent == IF remaining > 0
                              THEN FileBytes(DataIO([o150 EXCEPT !.s = d.s], "tx", env),
                                             RetrOffset(s),
                                             IF env.xfer_ok THEN remaining ELSE 0)
                              ELSE [o150 EXCEPT !.s = d.s]
                      closed == [sent EXCEPT
                                   !.s = ftp_session_close_data_connection(d.s)]
                  IN  IF env.xfer_ok \/ (remaining = 0 /\ s.crypto_active = 0)
                      THEN ftp_session_send_reply(closed, 226, env)
                      ELSE ftp_session_send_reply(closed, 426, env)

\* cmd_STOR returning from an aborted transfer without closing the data
\* connection
cmd_STOR_no_close_on_abort(s, args, env) ==
    LET r == ftp_path_resolve(s.cwd, args, PathMax)
        reset == [s EXCEPT !.restart_offset = 0]
    IN
    IF r.err # FTP_OK THEN ftp_session_send_reply(Outcome(reset), 550, env)
    ELSE IF r.out \in Directories \/ ~env.fs_ok
         THEN ftp_session_send_reply(Outcome(reset), 550, env)
    ELSE LET o150 == ftp_session_send_reply(Outcome(s), 150, env)
             d == ftp_session_open_data_connection(s, env)
         IN  IF d.err # FTP_OK
             THEN ftp_session_send_reply(
                      [o150 EXCEPT !.s = [d.s EXCEPT !.restart_offset = 0]], 425, env)
             ELSE LET got == DataIO([o150 EXCEPT !.s = d.s], "rx", env)
                  IN  IF env.xfer_ok
                      THEN ftp_session_send_reply(
                               [got EXCEPT !.s = ftp_session_close_data_connection(d.s)],
                               226, env)
                      ELSE ftp_session_send_reply(got, 426, env)

\* cmd_STOR and cmd_APPE differ in the open flags only; the lseek to a
\* restart offset is taken to succeed on a file that opened
cmd_STOR(s, args, env) ==
    LET r == ftp_path_resolve(s.cwd, args, PathMax)
        reset == [s EXCEPT !.restart_offset = 0]
    IN
    IF r.err # FTP_OK THEN ftp_session_send_reply(Outcome(reset), 550, env)
    ELSE IF r.out \in Directories \/ ~env.fs_ok
         THEN ftp_session_send_reply(Outcome(reset), 550, env)
    ELSE LET o150 == ftp_session_send_reply(Outcome(s), 150, env)
             d == ftp_session_open_data_connection(s, env)
         IN  IF d.err # FTP_OK
             THEN ftp_session_send_reply(
                      [o150 EXCEPT !.s = [d.s EXCEPT !.restart_offset = 0]], 425, env)
             ELSE LET got == DataIO([o150 EXCEPT !.s = d.s], "rx", env)
                      closed == [got EXCEPT
                                   !.s = ftp_session_close_data_connection(d.s)]
                  IN  IF env.xfer_ok
                      THEN ftp_session_send_reply(closed, 226, env)
                      ELSE ftp_session_send_reply(closed, 426, env)

cmd_APPE(s, args, env) == cmd_STOR(s, args, env)

cmd_REST(s, args, env) ==
    LET p == strtoll(args) IN
    IF p.rest # <<>> \/ p.val < 0 THEN ftp_session_send_reply(Outcome(s), 501, env)
    ELSE ftp_session_send_reply(Outcome([s EXCEPT !.restart_offset = p.val]), 350, env)

\* cmd_DELE, cmd_RMD and cmd_MKD change the file system only
cmd_DELE(s, args, env) ==
    LET r == ftp_path_resolve(s.cwd, args, PathMax) IN
    IF r.err # FTP_OK THEN ftp_session_send_reply(Outcome(s), 550, env)
    ELSE IF ~env.fs_ok THEN ftp_session_send_reply(Outcome(s), 550, env)
    ELSE ftp_session_send_reply(Outcome(s), 250, env)

cmd_RMD(s, args, env) == cmd_DELE(s, args, env)

cmd_MKD(s, args, env) ==
    LET r == ftp_path_resolve(s.cwd, args, PathMax) IN
    IF r.err # FTP_OK THEN ftp_session_send_reply(Outcome(s), 550, env)
    ELSE IF ~env.fs_ok THEN ftp_session_send_reply(Outcome(s), 550, env)
    ELSE ftp_session_send_reply_text(Outcome(s), 257,
             Truncated(Len(r.out) + MkdTextLen, ReplyBufSize), env)

cmd_RNFR(s, args, env) ==
    LET r == ftp_path_resolve(s.cwd, args, PathMax) IN
    IF r.err # FTP_OK THEN ftp_session_send_reply(Outcome(s), 550, env)
    ELSE IF pal_path_exists(r.out) # 1 THEN ftp_session_send_reply(Outcome(s), 550, env)
    ELSE IF Len(r.out) >= PathMax THEN ftp_session_send_reply(Outcome(s), 550, env)
    ELSE ftp_session_send_reply(Outcome([s EXCEPT !.rename_from = r.out]), 350, env)

\* cmd_RNTO clearing rename_from only when the rename succeeded
cmd_RNTO_keep_on_failure(s, args, env) ==
    IF s.rename_from = <<>> THEN ftp_session_send_reply(Outcome(s), 503, env)
    ELSE LET r == ftp_path_resolve(s.cwd, args, PathMax)
             cleared == [s EXCEPT !.rename_from = <<>>]
         IN  IF r.err # FTP_OK THEN ftp_session_send_reply(Outcome(s), 550, env)
             ELSE IF ~env.fs_ok THEN ftp_session_send_reply(Outcome(s), 550, env)
             ELSE ftp_session_send_reply(Outcome(cleared), 250, env)

cmd_RNTO(s, args, env) ==
    IF s.rename_from = <<>> THEN ftp_session_send_reply(Outcome(s), 503, env)
    ELSE LET r == ftp_path_resolve(s.cwd, args, PathMax)
             cleared == [s EXCEPT !.rename_from = <<>>]
         IN  IF r.err # FTP_OK THEN ftp_session_send_reply(Outcome(cleared), 550, env)
             ELSE IF ~env.fs_ok THEN ftp_session_send_reply(Outcome(cleared), 550, env)
             ELSE ftp_session_send_reply(Outcome(cleared), 250, env)

\* cmd_PORT without the comparison of the address with the control peer
cmd_PORT_any_host(s, args, env) ==
    LET v == ScanList(args, 6, <<>>) IN
    IF Len(v) # 6 THEN ftp_session_send_reply(Outcome(s), 501, env)
    ELSE IF \E i \in 1..6 : v[i] > 255 THEN ftp_session_send_reply(Outcome(s), 501, env)
    ELSE LET port == v[5] * 256 + v[6]
             m == pal_make_sockaddr(<<v[1], v[2], v[3], v[4]>>, port, s.data_addr)
             t == [s EXCEPT !.data_addr = m.addr]
         IN  IF m.err # FTP_OK THEN ftp_session_send_reply(Outcome(t), 501, env)
             ELSE ftp_session_send_reply(
                      Outcome([t EXCEPT !.data_mode = FTP_DATA_MODE_ACTIVE]), 200, env)

cmd_PORT(s, args, env) ==
    LET v == ScanList(args, 6, <<>>) IN
    IF Len(v) # 6 THEN ftp_session_send_reply(Outcome(s), 501, env)
    ELSE IF \E i \in 1..6 : v[i] > 255 THEN ftp_session_send_reply(Outcome(s), 501, env)
    ELSE LET port == v[5] * 256 + v[6]
             m == pal_make_sockaddr(<<v[1], v[2], v[3], v[4]>>, port, s.data_addr)
             t == [s EXCEPT !.data_addr = m.addr]
         IN  IF m.err # FTP_OK THEN ftp_session_send_reply(Outcome(t), 501, env)
             ELSE IF t.data_addr.ip # t.ctrl_addr.ip
                  THEN ftp_session_send_reply(
                           Outcome([t EXCEPT !.data_mode = FTP_DATA_MODE_NONE]), 501, env)
                  ELSE ftp_session_send_reply(
                           Outcome([t EXCEPT !.data_mode = FTP_DATA_MODE_ACTIVE]), 200, env)

cmd_PASV(s, args, env) ==
    LET t == [s EXCEPT !.pasv_fd = -1] IN
    IF ~env.sock_ok THEN ftp_session_send_reply(Outcome(t), 425, env)
    ELSE ftp_session_send_reply(
             Outcome([t EXCEPT !.pasv_fd = 0, !.data_mode = FTP_DATA_MODE_PASSIVE]),
             227, env)

cmd_SIZE(s, args, env) ==
    LET r == ftp_path_resolve(s.cwd, args, PathMax) IN
    IF r.err # FTP_OK THEN ftp_session_send_reply(Outcome(s), 550, env)
    ELSE IF pal_path_exists(r.out) # 1 \/ ~env.fs_ok
         THEN ftp_session_send_reply(Outcome(s), 550, env)
    ELSE ftp_session_send_reply(Outcome(s), 213, env)

cmd_MDTM(s, args, env) == cmd_SIZE(s, args, env)

cmd_STAT(s, args, env) == ftp_session_send_reply(Outcome(s), 211, env)

cmd_SYST(s, args, env) == ftp_session_send_reply(Outcome(s), 215, env)

\* ftp_session_send_multiline_reply writes every line of the 211 / 214 reply
cmd_FEAT(s, args, env) == ftp_session_send_reply(Outcome(s), 211, env)

cmd_HELP(s, args, env) == ftp_session_send_reply(Outcome(s), 214, env)

cmd_TYPE(s, args, env) ==
    IF args[1] \in {"A", "a"}
    THEN ftp_session_send_reply(Outcome([s EXCEPT !.transfer_type = "A"]), 200, env)
    ELSE IF args[1] \in {"I", "i"}
    THEN ftp_session_send_reply(Outcome([s EXCEPT !.transfer_type = "I"]), 200, env)
    ELSE ftp_session_send_reply(Outcome(s), 504, env)

cmd_MODE(s, args, env) ==
    IF args[1] \in {"S", "s"} THEN ftp_session_send_reply(Outcome(s), 200, env)
    ELSE ftp_session_send_reply(Outcome(s), 504, env)

cmd_STRU(s, args, env) ==
    IF args[1] \in {"F", "f"} THEN ftp_session_send_reply(Outcome(s), 200, env)
    ELSE ftp_session_send_reply(Outcome(s), 504, env)

\* the reply goes out before ftp_crypto_init sets crypto.active
cmd_AUTH(s, args, env) ==
    IF args # <<"X","C","R","Y","P","T">> /\ args # <<"x","c","r","y","p","t">>
    THEN ftp_session_send_reply(Outcome(s), 504, env)
    ELSE IF s.crypto_active # 0 THEN ftp_session_send_reply(Outcome(s), 503, env)
    ELSE LET o == ftp_session_send_reply(Outcome(s), 234, env) IN
         IF o.ret = FTP_OK THEN [o EXCEPT !.s = [s EXCEPT !.crypto_active = 1]]
         ELSE o

\* cmd->handler(session, cmd_args)
CallHandler(h, s, args, env) ==
    CASE h = "cmd_USER" -> cmd_USER(s, args, env)
      [] h = "cmd_PASS" -> cmd_PASS(s, args, env)
      [] h = "cmd_QUIT" -> cmd_QUIT(s, args, env)
      [] h = "cmd_NOOP" -> cmd_NOOP(s, args, env)
      [] h = "cmd_CWD"  -> cmd_CWD(s, args, env)
      [] h = "cmd_CDUP" -> cmd_CDUP(s, args, env)
      [] h = "cmd_PWD"  -> cmd_PWD(s, args, env)
      [] h = "cmd_LIST" -> cmd_LIST(s, args, env)
      [] h = "cmd_NLST" -> cmd_NLST(s, args, env)
      [] h = "cmd_MLSD" -> cmd_MLSD(s, args, env)
      [] h = "cmd_MLST" -> cmd_MLST(s, args, env)
      [] h = "cmd_RETR" -> cmd_RETR(s, args, env)
      [] h = "cmd_STOR" -> cmd_STOR(s, args, env)
      [] h = "cmd_APPE" -> cmd_APPE(s, args, env)
      [] h = "cmd_REST" -> cmd_REST(s, args, env)
      [] h = "cmd_DELE" -> cmd_DELE(s, args, env)
      [] h = "cmd_RMD"  -> cmd_RMD(s, args, env)
      [] h = "cmd_MKD"  -> cmd_MKD(s, args, env)
      [] h = "cmd_RNFR" -> cmd_RNFR(s, args, env)
      [] h = "cmd_RNTO" -> cmd_RNTO(s, args, env)
      [] h = "cmd_PORT" -> cmd_PORT(s, args, env)
      [] h = "cmd_PASV" -> cmd_PASV(s, args, env)
      [] h = "cmd_SIZE" -> cmd_SIZE(s, args, env)
      [] h = "cmd_MDTM" -> cmd_MDTM(s, args, env)
      [] h = "cmd_STAT" -> cmd_STAT(s, args, env)
      [] h = "cmd_SYST" -> cmd_SYST(s, args, env)
      [] h = "cmd_FEAT" -> cmd_FEAT(s, args, env)
      [] h = "cmd_HELP" -> cmd_HELP(s, args, env)
      [] h = "cmd_TYPE" -> cmd_TYPE(s, args, env)
      [] h = "cmd_MODE" -> cmd_MODE(s, args, env)
      [] h = "cmd_STRU" -> cmd_STRU(s, args, env)
      [] h = "cmd_AUTH" -> cmd_AUTH(s, args, env)

\* the verbs admitted before login
PreAuthVerbs == { <<"U","S","E","R">>, <<"P","A","S","S">>, <<"Q","U","I","T">>,
                  <<"N","O","O","P">>, <<"F","E","A","T">>, <<"S","Y","S","T">> }

\* ftp_session_process_command: the outcome of the command, the handler
\* that ran ("none" when none did) and the value returned to the worker
Dispatched(o, handler, result) ==
    [s |-> o.s, replies |-> o.replies, ret |-> o.ret, io |-> o.io,
     handler |-> handler, result |-> result]

\* HandlerDone without the QUIT test: 0 is returned for every verb
HandlerDone_no_quit_test(h, handler, command, env) ==
    Dispatched(IF h.ret = FTP_ERR_NOT_FOUND \/ h.ret = FTP_ERR_PERMISSION
               THEN Returning(ftp_session_send_reply(h, 550, env), h.ret)
               ELSE h,
               handler, 0)

\* after cmd->handler returned h: the fallback 550 for errors the handler
\* did not answer, and the QUIT test
HandlerDone(h, handler, command, env) ==
    Dispatched(IF h.ret = FTP_ERR_NOT_FOUND \/ h.ret = FTP_ERR_PERMISSION
               THEN Returning(ftp_session_send_reply(h, 550, env), h.ret)
               ELSE h,
               handler, IF command = <<"Q","U","I","T">> THEN 1 ELSE 0)

ftp_session_process_command(s, line, env) ==
    LET p == ftp_parse_command_line(line, CommandBufSize, FTP_CMD_BUFFER_SIZE) IN
    IF p.err # FTP_OK
    THEN Dispatched(ftp_session_send_reply(Outcome(s), 500, env), "none", 0)
    ELSE LET idx == ftp_find_command(p.command) IN
         IF idx = 0
         THEN Dispatched(ftp_session_send_reply(Outcome(s), 500, env), "none", 0)
         ELSE IF s.authenticated = 0 /\ p.command \notin PreAuthVerbs
         THEN Dispatched(ftp_session_send_reply(Outcome(s), 530, env), "none", 0)
         ELSE IF ftp_validate_command_args(command_table[idx], p.args) # FTP_OK
         THEN Dispatched(ftp_session_send_reply(Outcome(s), 501, env), "none", 0)
         ELSE HandlerDone(CallHandler(command_table[idx].handler, s, p.args, env),
                          command_table[idx].handler, p.command, env)

(***************************************************************************)
(* State                                                                   *)
(***************************************************************************)
VARIABLES
    p_cwd,      \* path resolver harness: session->cwd of the call
    p_input,    \* path resolver harness: the user-supplied path
    p_result,   \* path resolver harness: [done, err, out] of the call
    session,    \* one worker: its ftp_session_t
    pc,         \* one worker: position in ftp_session_thread
    obs,        \* one worker: what its last step did (observation only)
    running,            \* server: ctx->running
    active_sessions,    \* server: ctx->active_sessions
    sessions,           \* server: ctx->sessions[], the slot pool
    session_counter,    \* server: the static session_counter of the acceptor
    acceptor,           \* server: position and locals of server_accept_thread
    workers,            \* server: position and slot of each session thread
    stopper,            \* server: position of the caller of ftp_server_stop
    closed,             \* server: the PAL_CLOSE calls made by workers (observation only)
    g_stream_buffer_mask,   \* buffer pool: the atomic mask
    callers,                \* buffer pool: position, locals and holdings of each thread
    ctl,        \* control reader: ctrl_rxbuf, position and locals of the worker
    peer,       \* control reader: what the client has still to send
    rdobs,      \* control reader: what the last step did (observation only)
    crypto,     \* cipher harness: key, nonce, buffer and the ftp_crypto_ctx_t
    frame       \* blocking call harness: arguments, position and locals of the call

pathVars == <<p_cwd, p_input, p_result>>
sessionVars == <<session, pc, obs>>
serverVars == <<running, active_sessions, sessions, session_counter, acceptor,
                workers, stopper, closed>>
poolVars == <<g_stream_buffer_mask, callers>>
controlVars == <<ctl, peer, rdobs>>
cryptoVars == <<crypto>>
vars == <<p_cwd, p_input, p_result, session, pc, obs,
          running, active_sessions, sessions, session_counter, acceptor,
          workers, stopper, closed, g_stream_buffer_mask, callers,
          ctl, peer, rdobs, crypto, frame>>

(***************************************************************************)
(* Initial values of the parts of the state                                *)
(***************************************************************************)
NoObs == [event |-> "none", line |-> <<>>, handler |-> "none", replies |-> <<>>,
          io |-> <<>>, ret |-> FTP_OK, result |-> 0]

\* a worker that has just been created
SessionIdle ==
    /\ session = ftp_session_init(0, PeerAddr, 1, RootPath)
    /\ pc = "greet"
    /\ obs = NoObs

PathIdle ==
    /\ p_cwd = RootPath
    /\ p_input = <<>>
    /\ p_result = [done |-> FALSE, err |-> FTP_OK, out |-> <<>>]

\* number of slots of the pool (FTP_MAX_SESSIONS in the source)
MaxSessions == 2

\* bound on the connections the acceptor receives
MaxConnections == 3

Connections == 1..MaxConnections

\* a slot as ftp_server_init leaves it: zeroed, descriptors at -1
PoolSlot ==
    [ctrl_fd |-> -1, ctrl_addr |-> ZeroAddr, data_fd |-> -1, pasv_fd |-> -1,
     data_addr |-> ZeroAddr, data_mode |-> FTP_DATA_MODE_NONE,
     state |-> FTP_STATE_INIT, transfer_type |-> "", restart_offset |-> 0,
     root_path |-> <<>>, cwd |-> <<>>, rename_from |-> <<>>,
     auth_attempts |-> 0, authenticated |-> 0, user_ok |-> 0,
     crypto_active |-> 0, ctrl_rx_len |-> 0, ctrl_rx_off |-> 0,
     session_id |-> 0, commands_processed |-> 0]

NoWorker == [pc |-> "none", slot |-> 0]

\* the 32-bit unsigned counter is kept as two 16-bit halves [hi, lo]
Half == 256 * 256

CounterOf(n) == [hi |-> n \div Half, lo |-> n % Half]

\* the state after ftp_server_init and ftp_server_start
ServerIdle ==
    /\ running = 1
    /\ active_sessions = CounterOf(0)
    /\ sessions = [i \in 1..MaxSessions |-> PoolSlot]
    /\ session_counter = 0
    /\ acceptor = [pc |-> "top", client_fd |-> -1, slot |-> 0, accepted |-> 0]
    /\ workers = [n \in Connections |-> NoWorker]
    /\ stopper = "idle"
    /\ closed = {}

\* number of buffers (FTP_STREAM_BUFFER_COUNT in the source)
BufferCount == 2

\* number of threads using the pool
MaxThreads == 2

Threads == 1..MaxThreads

PoolIdle ==
    /\ g_stream_buffer_mask = 0
    /\ callers = [t \in Threads |->
                     [pc |-> "idle", mask |-> 0, held |-> <<>>, ret |-> "none"]]

\* the reader of a worker that has sent its greeting: nothing buffered
\* (ftp_session_init), last_activity = connect_time
ControlIdle ==
    /\ ctl = [pc |-> "top", ctrl_rxbuf |-> <<>>, ctrl_rx_off |-> 0,
              buffer |-> <<>>, too_long |-> 0, expired |-> FALSE]
    /\ peer = [rest |-> <<>>, long |-> 0, started |-> 0]
    /\ rdobs = [event |-> "none", line |-> <<>>, replies |-> <<>>]

\* no cipher context in use
CryptoIdle ==
    crypto = [pc |-> "idle", key |-> <<>>, nonce |-> <<>>, B |-> <<>>,
              data |-> <<>>, cipher |-> <<>>, passes |-> 0, ctx |-> <<>>]

\* no blocking call in progress
FrameIdle == frame = [pc |-> "idle"]

(***************************************************************************)
(* Server (ftp_server.c): the acceptor, the session threads it creates,    *)
(* and a caller of ftp_server_stop.  The command loop of a session thread  *)
(* is reduced to the steps that touch its descriptors.  Descriptors are    *)
(* numbered by connection: connection n has control descriptor n and data  *)
(* listener MaxConnections + n.                                            *)
(***************************************************************************)
\* the connection a descriptor was opened for
Owner(fd) == IF fd > MaxConnections THEN fd - MaxConnections ELSE fd

\* atomic_fetch_add / atomic_fetch_sub by one, modulo 2^32 (d is 1 or -1)
CounterAdd(c, d) ==
    LET lo == (c.lo + d) % Half
        hi == IF d = 1 /\ c.lo = Half - 1 THEN (c.hi + 1) % Half
              ELSE IF d = -1 /\ c.lo = 0 THEN (c.hi - 1) % Half
              ELSE c.hi
    IN  [hi |-> hi, lo |-> lo]

\* allocate_session under session_lock: index of the slot taken, 0 for NULL
RECURSIVE FreeSlotFrom(_, _)
FreeSlotFrom(pool, i) ==
    IF i > Len(pool) THEN 0
    ELSE IF pool[i].state = FTP_STATE_INIT \/ pool[i].state = FTP_STATE_TERMINATING
    THEN i
    ELSE FreeSlotFrom(pool, i + 1)

allocate_session(pool) ==
    LET i == FreeSlotFrom(pool, 1) IN
    [slot |-> i,
     pool |-> IF i = 0 THEN pool ELSE [pool EXCEPT ![i].state = FTP_STATE_CONNECTED]]

\* free_session under session_lock
free_session(pool, count, i) ==
    [pool |-> [pool EXCEPT ![i].state = FTP_STATE_INIT],
     active_sessions |-> CounterAdd(count, -1)]

\* while (atomic_load(&ctx->running) != 0)
AcceptLoopTest ==
    /\ acceptor.pc = "top"
    /\ acceptor' = [acceptor EXCEPT !.pc = IF running # 0 THEN "accept" ELSE "exit"]
    /\ UNCHANGED <<running, active_sessions, sessions, session_counter, workers,
                   stopper, closed>>
    /\ UNCHANGED <<pathVars, sessionVars, poolVars, controlVars, cryptoVars, frame>>

\* PAL_ACCEPT returns a connection
AcceptConnection ==
    /\ acceptor.pc = "accept"
    /\ acceptor.accepted < MaxConnections
    /\ acceptor' = [acceptor EXCEPT !.pc = "allocate", !.client_fd = acceptor.accepted + 1,
                                    !.accepted = @ + 1]
    /\ UNCHANGED <<running, active_sessions, sessions, session_counter, workers,
                   stopper, closed>>
    /\ UNCHANGED <<pathVars, sessionVars, poolVars, controlVars, cryptoVars, frame>>

\* PAL_ACCEPT fails: break when the server is stopping, else try again
AcceptFails ==
    /\ acceptor.pc = "accept"
    /\ acceptor' = [acceptor EXCEPT !.pc = IF running = 0 THEN "exit" ELSE "top"]
    /\ UNCHANGED <<running, active_sessions, sessions, session_counter, workers,
                   stopper, closed>>
    /\ UNCHANGED <<pathVars, sessionVars, poolVars, controlVars, cryptoVars, frame>>

\* allocate_session; NULL closes the connection
AcceptAllocate ==
    /\ acceptor.pc = "allocate"
    /\ LET a == allocate_session(sessions) IN
       /\ sessions' = a.pool
       /\ acceptor' = IF a.slot = 0
                      THEN [acceptor EXCEPT !.pc = "top", !.client_fd = -1]
                      ELSE [acceptor EXCEPT !.pc = "init", !.slot = a.slot]
    /\ UNCHANGED <<running, active_sessions, session_counter, workers, stopper, closed>>
    /\ UNCHANGED <<pathVars, sessionVars, poolVars, controlVars, cryptoVars, frame>>

\* AcceptInit with an ftp_session_init that leaves the login of the slot
AcceptInit_keeps_login ==
    /\ acceptor.pc = "init"
    /\ sessions' = [sessions EXCEPT ![acceptor.slot] =
                       [ftp_session_init(acceptor.client_fd, PeerAddr,
                                         session_counter, RootPath)
                            EXCEPT !.authenticated = sessions[acceptor.slot].authenticated]]
    /\ session_counter' = session_counter + 1
    /\ acceptor' = [acceptor EXCEPT !.pc = "create"]
    /\ UNCHANGED <<running, active_sessions, workers, stopper, closed>>
    /\ UNCHANGED <<pathVars, sessionVars, poolVars, controlVars, cryptoVars, frame>>

\* session_id = session_counter++, then ftp_session_init on the slot
AcceptInit ==
    /\ acceptor.pc = "init"
    /\ sessions' = [sessions EXCEPT ![acceptor.slot] =
                       ftp_session_init(acceptor.client_fd, PeerAddr,
                                        session_counter, RootPath)]
    /\ session_counter' = session_counter + 1
    /\ acceptor' = [acceptor EXCEPT !.pc = "create"]
    /\ UNCHANGED <<running, active_sessions, workers, stopper, closed>>
    /\ UNCHANGED <<pathVars, sessionVars, poolVars, controlVars, cryptoVars, frame>>

\* pthread_create succeeds: the session thread exists from here on
AcceptCreate ==
    /\ acceptor.pc = "create"
    /\ workers' = [workers EXCEPT ![acceptor.client_fd] =
                      [pc |-> "loop", slot |-> acceptor.slot]]
    /\ acceptor' = [acceptor EXCEPT !.pc = "count"]
    /\ UNCHANGED <<running, active_sessions, sessions, session_counter, stopper, closed>>
    /\ UNCHANGED <<pathVars, sessionVars, poolVars, controlVars, cryptoVars, frame>>

\* pthread_create fails: close the connection, free_session
AcceptCreateFails ==
    /\ acceptor.pc = "create"
    /\ LET f == free_session(sessions, active_sessions, acceptor.slot) IN
       /\ sessions' = f.pool
       /\ active_sessions' = f.active_sessions
    /\ acceptor' = [acceptor EXCEPT !.pc = "top", !.client_fd = -1, !.slot = 0]
    /\ UNCHANGED <<running, session_counter, workers, stopper, closed>>
    /\ UNCHANGED <<pathVars, sessionVars, poolVars, controlVars, cryptoVars, frame>>

\* atomic_fetch_add(&ctx->active_sessions, 1U) at the end of the iteration
AcceptCount ==
    /\ acceptor.pc = "count"
    /\ active_sessions' = CounterAdd(active_sessions, 1)
    /\ acceptor' = [acceptor EXCEPT !.pc = "top", !.client_fd = -1, !.slot = 0]
    /\ UNCHANGED <<running, sessions, session_counter, workers, stopper, closed>>
    /\ UNCHANGED <<pathVars, sessionVars, poolVars, controlVars, cryptoVars, frame>>

\* a command of the session (PASV) opens the data listener of the slot
WorkerListen(n) ==
    /\ workers[n].pc = "loop"
    /\ sessions[workers[n].slot].pasv_fd < 0
    /\ sessions' = [sessions EXCEPT ![workers[n].slot].pasv_fd = MaxConnections + n,
                                    ![workers[n].slot].data_mode = FTP_DATA_MODE_PASSIVE]
    /\ UNCHANGED <<running, active_sessions, session_counter, acceptor, workers,
                   stopper, closed>>
    /\ UNCHANGED <<pathVars, sessionVars, poolVars, controlVars, cryptoVars, frame>>

\* the command loop ends (QUIT, peer closed, idle timeout, receive error)
WorkerLeaveLoop(n) ==
    /\ workers[n].pc = "loop"
    /\ workers' = [workers EXCEPT ![n].pc = "cleanup"]
    /\ UNCHANGED <<running, active_sessions, sessions, session_counter, acceptor,
                   stopper, closed>>
    /\ UNCHANGED <<pathVars, sessionVars, poolVars, controlVars, cryptoVars, frame>>

\* ftp_session_cleanup, first statement: atomic_store(&session->state, TERMINATING)
CleanupMark(n) ==
    /\ workers[n].pc = "cleanup"
    /\ sessions' = [sessions EXCEPT ![workers[n].slot].state = FTP_STATE_TERMINATING]
    /\ workers' = [workers EXCEPT ![n].pc = "close_data"]
    /\ UNCHANGED <<running, active_sessions, session_counter, acceptor, stopper, closed>>
    /\ UNCHANGED <<pathVars, sessionVars, poolVars, controlVars, cryptoVars, frame>>

\* ftp_session_cleanup, second statement: ftp_session_close_data_connection
CleanupData(n) ==
    /\ workers[n].pc = "close_data"
    /\ LET slot == sessions[workers[n].slot] IN
       /\ closed' = closed \cup {[by |-> n, fd |-> fd] :
                                    fd \in {slot.data_fd, slot.pasv_fd} \ {-1}}
       /\ sessions' = [sessions EXCEPT ![workers[n].slot] =
                          ftp_session_close_data_connection(slot)]
    /\ workers' = [workers EXCEPT ![n].pc = "close_ctrl"]
    /\ UNCHANGED <<running, active_sessions, session_counter, acceptor, stopper>>
    /\ UNCHANGED <<pathVars, sessionVars, poolVars, controlVars, cryptoVars, frame>>

\* ftp_session_cleanup, last statement: close ctrl_fd when it is not -1; the
\* thread returns
CleanupCtrl(n) ==
    /\ workers[n].pc = "close_ctrl"
    /\ LET slot == sessions[workers[n].slot] IN
       IF slot.ctrl_fd >= 0
       THEN /\ closed' = closed \cup {[by |-> n, fd |-> slot.ctrl_fd]}
            /\ sessions' = [sessions EXCEPT ![workers[n].slot].ctrl_fd = -1]
       ELSE UNCHANGED <<closed, sessions>>
    /\ workers' = [workers EXCEPT ![n].pc = "done"]
    /\ UNCHANGED <<running, active_sessions, session_counter, acceptor, stopper>>
    /\ UNCHANGED <<pathVars, sessionVars, poolVars, controlVars, cryptoVars, frame>>

\* ftp_server_stop: atomic_store(&ctx->running, 0)
StopSignal ==
    /\ stopper = "idle"
    /\ running' = 0
    /\ stopper' = "wait"
    /\ UNCHANGED <<active_sessions, sessions, session_counter, acceptor, workers, closed>>
    /\ UNCHANGED <<pathVars, sessionVars, poolVars, controlVars, cryptoVars, frame>>

\* ftp_server_stop: the wait loop reads a counter that is not above zero
StopReturn ==
    /\ stopper = "wait"
    /\ active_sessions = CounterOf(0)
    /\ stopper' = "returned"
    /\ UNCHANGED <<running, active_sessions, sessions, session_counter, acceptor,
                   workers, closed>>
    /\ UNCHANGED <<pathVars, sessionVars, poolVars, controlVars, cryptoVars, frame>>

ServerInit ==
    /\ ServerIdle
    /\ SessionIdle
    /\ PathIdle
    /\ PoolIdle
    /\ ControlIdle
    /\ CryptoIdle
    /\ FrameIdle

ServerNext ==
    \/ AcceptLoopTest
    \/ AcceptConnection
    \/ AcceptFails
    \/ AcceptAllocate
    \/ AcceptInit
    \/ AcceptCreate
    \/ AcceptCreateFails
    \/ AcceptCount
    \/ \E n \in Connections : WorkerListen(n)
    \/ \E n \in Connections : WorkerLeaveLoop(n)
    \/ \E n \in Connections : CleanupMark(n)
    \/ \E n \in Connections : CleanupData(n)
    \/ \E n \in Connections : CleanupCtrl(n)
    \/ StopSignal
    \/ StopReturn

SpecServer == ServerInit /\ [][ServerNext]_vars

\* C7: a worker that has not finished ftp_session_cleanup still finds its own
\* session in its slot (the acceptor has not re-initialised the slot), and
\* every descriptor a worker closes belongs to its own session.
C7_SlotReusedOnlyAfterCleanup ==
    /\ \A n \in Connections :
           workers[n].pc \in {"loop", "cleanup", "close_data", "close_ctrl"}
               => sessions[workers[n].slot].ctrl_fd = n
    /\ \A c \in closed : Owner(c.fd) = c.by

\* C8: when no accept and no cleanup is in progress, active_sessions equals
\* the number of slots whose state is not FTP_STATE_INIT.
C8_ActiveCountMatchesSlots ==
    (/\ acceptor.pc \in {"top", "accept", "exit"}
     /\ \A n \in Connections : workers[n].pc \in {"none", "loop", "done"})
        => active_sessions =
               CounterOf(Cardinality({i \in 1..MaxSessions :
                                         sessions[i].state # FTP_STATE_INIT}))

\* C9: once ftp_server_stop waits, the acceptor has left its loop, a session
\* has been served and every session thread has exited, the counter the wait
\* loop reads is zero, so that ftp_server_stop returns.
C9_StopReturnsAfterWorkersExit ==
    (/\ stopper = "wait"
     /\ acceptor.pc = "exit"
     /\ \E n \in Connections : workers[n].pc = "done"
     /\ \A n \in Connections : workers[n].pc \in {"none", "done"})
        => active_sessions = CounterOf(0)

\* C26: when the spawn of the worker fails in the acceptor, the client socket
\* is closed, the slot is free again and active_sessions has the value it had
\* before; the counter never drops below zero or wraps around.
C26_FailedSpawnRestoresCount ==
    /\ [][(acceptor.pc = "create" /\ acceptor'.pc = "top")
              => /\ sessions'[acceptor.slot].state = FTP_STATE_INIT
                 /\ acceptor'.client_fd = -1
                 /\ active_sessions' = active_sessions]_vars
    /\ [](active_sessions.hi = 0 /\ active_sessions.lo <= MaxSessions)

(***************************************************************************)
(* Stream buffer pool (ftp_buffer_pool.c): threads calling                 *)
(* ftp_buffer_acquire and ftp_buffer_release                               *)
(***************************************************************************)
RECURSIVE Pow2(_)
Pow2(i) == IF i = 0 THEN 1 ELSE 2 * Pow2(i - 1)

\* (mask & (1U << i)) != 0U
BitSet(mask, i) == (mask \div Pow2(i)) % 2 = 1

\* mask | (1U << i)
OrBit(mask, i) == IF BitSet(mask, i) THEN mask ELSE mask + Pow2(i)

\* mask & ~(1U << i)
ClearBit(mask, i) == IF BitSet(mask, i) THEN mask - Pow2(i) ELSE mask

\* the scan of ftp_buffer_acquire: first clear bit of the mask read,
\* BufferCount when every bit is set
RECURSIVE FirstClear(_, _)
FirstClear(mask, i) ==
    IF i >= BufferCount THEN BufferCount
    ELSE IF BitSet(mask, i) THEN FirstClear(mask, i + 1)
    ELSE i

\* a plain store in place of the compare-exchange
atomic_store_unconditional(g, expected, desired, fails) ==
    [ok |-> TRUE, g |-> desired]

\* atomic_compare_exchange_weak(&g, &expected, desired); fails is the
\* spurious failure the weak form allows
atomic_compare_exchange_weak(g, expected, desired, fails) ==
    IF g = expected /\ ~fails THEN [ok |-> TRUE, g |-> desired]
    ELSE [ok |-> FALSE, g |-> g]

\* ftp_buffer_acquire: mask = atomic_load(&g_stream_buffer_mask)
AcquireLoad(t) ==
    /\ callers[t].pc = "idle"
    /\ callers' = [callers EXCEPT ![t].pc = "scan", ![t].mask = g_stream_buffer_mask,
                                  ![t].ret = "none"]
    /\ UNCHANGED <<g_stream_buffer_mask, pathVars, sessionVars, serverVars, controlVars, cryptoVars, frame>>

\* ftp_buffer_acquire: the scan, the compare-exchange on the first free bit,
\* and the return (the buffer, or NULL when the exchange fails or no bit is
\* free)
AcquireExchange(t) ==
    /\ callers[t].pc = "scan"
    /\ LET i == FirstClear(callers[t].mask, 0) IN
       IF i = BufferCount
       THEN /\ callers' = [callers EXCEPT ![t].pc = "idle", ![t].ret = "NULL"]
            /\ UNCHANGED g_stream_buffer_mask
       ELSE \E fails \in BOOLEAN :
              LET x == atomic_compare_exchange_weak(g_stream_buffer_mask,
                           callers[t].mask, OrBit(callers[t].mask, i), fails)
              IN  /\ g_stream_buffer_mask' = x.g
                  /\ callers' = IF x.ok
                                THEN [callers EXCEPT ![t].pc = "idle",
                                                     ![t].held = Append(@, i),
                                                     ![t].ret = "buffer"]
                                ELSE [callers EXCEPT ![t].pc = "idle", ![t].ret = "NULL"]
    /\ UNCHANGED <<pathVars, sessionVars, serverVars, controlVars, cryptoVars, frame>>

\* ftp_buffer_release that leaves the bit set
ftp_buffer_release_keeps_bit(mask, buffer) == mask

\* ftp_buffer_release on the mask; a pointer is the index of the buffer it
\* points to, -1 for NULL and BufferCount for an address outside the pool
ftp_buffer_release(mask, buffer) ==
    IF buffer < 0 THEN mask
    ELSE IF buffer < BufferCount THEN ClearBit(mask, buffer)
    ELSE mask

\* ftp_buffer_release of a buffer the thread holds
Release(t) ==
    /\ callers[t].pc = "idle"
    /\ \E k \in 1..Len(callers[t].held) :
          /\ g_stream_buffer_mask' = ftp_buffer_release(g_stream_buffer_mask,
                                                        callers[t].held[k])
          /\ callers' = [callers EXCEPT
                           ![t].held = SubSeq(@, 1, k - 1) \o SubSeq(@, k + 1, Len(@)),
                           ![t].ret = "none"]
    /\ UNCHANGED <<pathVars, sessionVars, serverVars, controlVars, cryptoVars, frame>>

\* ftp_buffer_release of NULL or of a pointer that is no buffer of the pool
ReleaseOther(t) ==
    /\ callers[t].pc = "idle"
    /\ \E buffer \in {-1, BufferCount} :
          g_stream_buffer_mask' = ftp_buffer_release(g_stream_buffer_mask, buffer)
    /\ callers' = [callers EXCEPT ![t].ret = "none"]
    /\ UNCHANGED <<pathVars, sessionVars, serverVars, controlVars, cryptoVars, frame>>

PoolInit ==
    /\ PoolIdle
    /\ ServerIdle
    /\ SessionIdle
    /\ PathIdle
    /\ ControlIdle
    /\ CryptoIdle
    /\ FrameIdle

PoolNext ==
    \/ \E t \in Threads : AcquireLoad(t)
    \/ \E t \in Threads : AcquireExchange(t)
    \/ \E t \in Threads : Release(t)
    \/ \E t \in Threads : ReleaseOther(t)

SpecPool == PoolInit /\ [][PoolNext]_vars

\* C10: no buffer is held twice at once (by two threads, or twice by one),
\* and the set bits of the mask are exactly the buffers held.
C10_BuffersExclusive ==
    /\ \A t, u \in Threads : \A j \in 1..Len(callers[t].held) :
       \A k \in 1..Len(callers[u].held) :
           (t # u \/ j # k) => callers[t].held[j] # callers[u].held[k]
    /\ \A i \in 0..(BufferCount - 1) :
           BitSet(g_stream_buffer_mask, i)
               <=> \E t \in Threads : \E j \in 1..Len(callers[t].held) :
                       callers[t].held[j] = i

\* two threads read the same mask; one exchange succeeded, the other failed
\* and returned NULL although a buffer is free
C10_Witness ==
    /\ callers[1].ret = "buffer"
    /\ callers[1].held = <<0>>
    /\ callers[2].ret = "NULL"
    /\ callers[2].mask = 0
    /\ g_stream_buffer_mask = 1

\* the buffers a thread holds, as a mask
HeldMask(t) ==
    LET RECURSIVE Sum(_)
        Sum(k) == IF k = 0 THEN 0 ELSE Pow2(callers[t].held[k]) + Sum(k - 1)
    IN  Sum(Len(callers[t].held))

\* C11: with a single caller (every other thread idle, holding nothing), an
\* acquire returns a buffer the caller does not hold yet as long as it holds
\* fewer than FTP_STREAM_BUFFER_COUNT buffers and NULL once it holds them all;
\* a release makes exactly the released buffer available, and releasing NULL
\* or a foreign pointer leaves the pool as it was.
C11_SingleCallerSequence ==
    [][\A t \in Threads :
          (/\ \A u \in Threads \ {t} : callers[u].pc = "idle" /\ callers[u].held = <<>>
           /\ g_stream_buffer_mask = HeldMask(t)
           /\ callers[t].pc = "scan" => callers[t].mask = g_stream_buffer_mask)
          => /\ (callers[t].pc = "scan" /\ callers'[t].pc = "idle")
                 => IF Len(callers[t].held) < BufferCount
                    THEN /\ callers'[t].ret = "buffer"
                         /\ Len(callers'[t].held) = Len(callers[t].held) + 1
                         /\ \A k \in 1..Len(callers[t].held) :
                                callers[t].held[k] # callers'[t].held[Len(callers'[t].held)]
                    ELSE callers'[t].ret = "NULL" /\ callers'[t].held = callers[t].held
             /\ g_stream_buffer_mask' = HeldMask(t)'
      ]_vars

(***************************************************************************)
(* The pool as the transfer handlers use it: a session thread inside       *)
(* cmd_RETR (buffered path), cmd_STOR or cmd_APPE acquires a buffer, runs   *)
(* its transfer loop, which ends in one of the handler's exits, releases   *)
(* the buffer and returns.  callers[t].again tells that t has returned     *)
(* from a transfer before its latest one, callers[t].ret how the latest    *)
(* transfer loop ended.                                                    *)
(***************************************************************************)
\* how a transfer loop ends, given the handler and the buffer it got (-1 is
\* NULL)
LoopExits(kind, buffer) ==
    IF buffer < 0 THEN {"no_buffer"}
    ELSE IF kind = "cmd_RETR" THEN {"success", "read_error", "short_send"}
    ELSE {"success", "recv_error", "write_error"}

HandlersInit ==
    /\ g_stream_buffer_mask = 0
    /\ callers = [t \in Threads |->
                     [pc |-> "idle", mask |-> 0, held |-> <<>>, ret |-> "none",
                      kind |-> "none", buffer |-> -1, again |-> FALSE]]
    /\ ServerIdle
    /\ SessionIdle
    /\ PathIdle
    /\ ControlIdle
    /\ CryptoIdle
    /\ FrameIdle

HandlersUnchanged ==
    UNCHANGED <<pathVars, sessionVars, serverVars, controlVars, cryptoVars, frame>>

\* the handler has opened the data connection and calls ftp_buffer_acquire:
\* mask = atomic_load(&g_stream_buffer_mask)
HandlerAcquire(t) ==
    /\ callers[t].pc = "idle"
    /\ callers' = [callers EXCEPT ![t].pc = "scan", ![t].mask = g_stream_buffer_mask,
                                  ![t].ret = "none", ![t].buffer = -1,
                                  ![t].again = callers[t].ret # "none"]
    /\ UNCHANGED g_stream_buffer_mask
    /\ HandlersUnchanged

\* the rest of ftp_buffer_acquire: the buffer, or NULL
HandlerExchange(t) ==
    /\ callers[t].pc = "scan"
    /\ LET i == FirstClear(callers[t].mask, 0) IN
       IF i = BufferCount
       THEN /\ callers' = [callers EXCEPT ![t].pc = "loop"]
            /\ UNCHANGED g_stream_buffer_mask
       ELSE \E fails \in BOOLEAN :
              LET x == atomic_compare_exchange_weak(g_stream_buffer_mask,
                           callers[t].mask, OrBit(callers[t].mask, i), fails)
              IN  /\ g_stream_buffer_mask' = x.g
                  /\ callers' = IF x.ok
                                THEN [callers EXCEPT ![t].pc = "loop", ![t].buffer = i,
                                                     ![t].held = <<i>>]
                                ELSE [callers EXCEPT ![t].pc = "loop"]
    /\ HandlersUnchanged

\* the transfer loop of the handler that made the call runs and ends
HandlerLoop(t) ==
    /\ callers[t].pc = "loop"
    /\ \E kind \in {"cmd_RETR", "cmd_STOR", "cmd_APPE"} :
       \E exit \in LoopExits(kind, callers[t].buffer) :
          callers' = [callers EXCEPT ![t].pc = "release", ![t].kind = kind,
                                     ![t].ret = exit]
    /\ UNCHANGED g_stream_buffer_mask
    /\ HandlersUnchanged

\* ftp_buffer_release(buffer) after the loop, the final reply, return
HandlerRelease(t) ==
    /\ callers[t].pc = "release"
    /\ g_stream_buffer_mask' = ftp_buffer_release(g_stream_buffer_mask, callers[t].buffer)
    /\ callers' = [callers EXCEPT ![t].pc = "idle", ![t].held = <<>>, ![t].mask = 0,
                                  ![t].kind = "none", ![t].buffer = -1]
    /\ HandlersUnchanged

HandlersNext ==
    \/ \E t \in Threads : HandlerAcquire(t)
    \/ \E t \in Threads : HandlerExchange(t)
    \/ \E t \in Threads : HandlerLoop(t)
    \/ \E t \in Threads : HandlerRelease(t)

SpecHandlers == HandlersInit /\ [][HandlersNext]_vars

\* C36: every buffer acquired by RETR, STOR or APPE is released before the
\* handler returns, whatever the exit of its transfer loop: a set bit of the
\* mask belongs to a thread that is inside a handler, so the mask is 0
\* whenever no thread is inside one, however many transfers have failed.
C36_BuffersReleasedOnEveryExit ==
    /\ \A i \in 0..(BufferCount - 1) :
           BitSet(g_stream_buffer_mask, i)
               => \E t \in Threads : /\ callers[t].pc \in {"loop", "release"}
                                     /\ callers[t].buffer = i
    /\ (\A t \in Threads : callers[t].pc = "idle") => g_stream_buffer_mask = 0
    /\ g_stream_buffer_mask < Pow2(BufferCount)

\* both threads have returned from repeated transfers, the last of them
\* failed ones
C36_Witness ==
    /\ \A t \in Threads : callers[t].pc = "idle" /\ callers[t].again
    /\ callers[1].ret = "short_send"
    /\ callers[2].ret = "write_error"
    /\ g_stream_buffer_mask = 0

(***************************************************************************)
(* ftp_buffer_acquire under concurrency.  callers[t].free is the set of    *)
(* buffers that have been free ever since t's call began (observation      *)
(* only).                                                                  *)
(***************************************************************************)
FreeBuffers(mask) == {i \in 0..(BufferCount - 1) : ~BitSet(mask, i)}

CallsInit ==
    /\ g_stream_buffer_mask = 0
    /\ callers = [t \in Threads |->
                     [pc |-> "idle", mask |-> 0, held |-> <<>>, ret |-> "none",
                      free |-> {}]]
    /\ ServerIdle
    /\ SessionIdle
    /\ PathIdle
    /\ ControlIdle
    /\ CryptoIdle
    /\ FrameIdle

\* buffer i has been taken: it has not stayed free for the calls in progress
Taken(c, t, i) ==
    [u \in Threads |->
        IF u # t /\ c[u].pc = "scan" THEN [c[u] EXCEPT !.free = @ \ {i}] ELSE c[u]]

\* the call begins: mask = atomic_load(&g_stream_buffer_mask)
CallLoad(t) ==
    /\ callers[t].pc = "idle"
    /\ callers' = [callers EXCEPT ![t].pc = "scan", ![t].mask = g_stream_buffer_mask,
                                  ![t].ret = "none",
                                  ![t].free = FreeBuffers(g_stream_buffer_mask)]
    /\ UNCHANGED g_stream_buffer_mask
    /\ HandlersUnchanged

\* the scan, the compare-exchange on the first free bit of the mask read,
\* and the return
CallExchange(t) ==
    /\ callers[t].pc = "scan"
    /\ LET i == FirstClear(callers[t].mask, 0) IN
       IF i = BufferCount
       THEN /\ callers' = [callers EXCEPT ![t].pc = "idle", ![t].ret = "NULL"]
            /\ UNCHANGED g_stream_buffer_mask
       ELSE \E fails \in BOOLEAN :
              LET x == atomic_compare_exchange_weak(g_stream_buffer_mask,
                           callers[t].mask, OrBit(callers[t].mask, i), fails)
              IN  /\ g_stream_buffer_mask' = x.g
                  /\ callers' = IF x.ok
                                THEN Taken([callers EXCEPT ![t].pc = "idle",
                                                           ![t].held = Append(@, i),
                                                           ![t].ret = "buffer"], t, i)
                                ELSE [callers EXCEPT ![t].pc = "idle", ![t].ret = "NULL"]
    /\ HandlersUnchanged

\* ftp_buffer_release of a buffer the thread holds
CallRelease(t) ==
    /\ callers[t].pc = "idle"
    /\ \E k \in 1..Len(callers[t].held) :
          /\ g_stream_buffer_mask' = ftp_buffer_release(g_stream_buffer_mask,
                                                        callers[t].held[k])
          /\ callers' = [callers EXCEPT
                           ![t].held = SubSeq(@, 1, k - 1) \o SubSeq(@, k + 1, Len(@)),
                           ![t].ret = "none"]
    /\ HandlersUnchanged

CallsNext ==
    \/ \E t \in Threads : CallLoad(t)
    \/ \E t \in Threads : CallExchange(t)
    \/ \E t \in Threads : CallRelease(t)

SpecCalls == CallsInit /\ [][CallsNext]_vars

\* C38: ftp_buffer_acquire returns NULL only when every buffer is in use: a
\* call during which at least one buffer stays free from its beginning to
\* its end returns a buffer, also when another thread's acquire or release
\* changes the mask between the call's load and its compare-and-swap.
C38_NullOnlyWhenPoolFull ==
    \A t \in Threads :
        (callers[t].pc = "idle" /\ callers[t].ret = "NULL") => callers[t].free = {}

(***************************************************************************)
(* One worker thread (ftp_session_thread) serving one client               *)
(***************************************************************************)
\* bound on the commands a client sends in one session
MaxCommands == 4

\* the command lines the client sends (CRLF already stripped)
ClientLines ==
    { <<" ","N","O","O","P">>,
      <<"N","O","O","P"," ">>,
      <<"U","S","E","R"," ","a","n","o","n","y","m","o","u","s">>,
      <<"u","s","e","r"," ","f","t","p">>,
      <<"U","S","E","R"," ","r">>,
      <<"P","A","S","S"," ","r">>,
      <<"Q","U","I","T">>,
      <<"N","O","O","P">>,
      <<"N","O","O","P"," ","r">>,
      <<"X","Y","Z">>,
      <<"P","W","D">>,
      <<"C","W","D">>,
      <<"C","W","D"," ","a">>,
      <<"C","W","D"," ",".",".">>,
      <<"C","W","D"," ","/">>,
      <<"C","W","D"," ","/","r","a">>,
      <<"C","D","U","P">>,
      <<"L","I","S","T">>,
      <<"R","E","T","R"," ","r">>,
      <<"S","T","O","R"," ","r">>,
      <<"R","E","S","T"," ","2">>,
      <<"R","E","S","T"," ","r">>,
      <<"R","N","F","R"," ","a">>,
      <<"R","N","F","R"," ","r","a">>,
      <<"R","N","T","O"," ","r">>,
      <<"D","E","L","E"," ","a">>,
      <<"S","I","Z","E"," ","r">>,
      <<"T","Y","P","E"," ","A">>,
      <<"S","Y","S","T">>,
      <<"F","E","A","T">>,
      <<"P","A","S","V">>,
      <<"A","U","T","H"," ","X","C","R","Y","P","T">>,
      <<"A","U","T","H"," ","r">>,
      <<"P","O","R","T"," ","1","0",",","0",",","0",",","2",",","0",",","2","1">>,
      <<"P","O","R","T"," ","1","2","7",",","0",",","0",",","1",",","0",",","2","1">>,
      <<"P","O","R","T"," ","1","2","7",",","0",",","0",",","1",",","0",",","0">>,
      <<"P","O","R","T"," ","1","0",",","0",",","0",",","2",",","0",",","0">>,
      <<"P","O","R","T"," ","1",",","2",",","3">>,
      <<"P","O","R","T"," ","2","5","6",",","0",",","0",",","1",",","0",",","2","1">> }

DataVerbs == {"cmd_LIST", "cmd_NLST", "cmd_MLSD", "cmd_RETR", "cmd_STOR", "cmd_APPE"}

FileVerbs == {"cmd_DELE", "cmd_RMD", "cmd_MKD", "cmd_RNTO", "cmd_SIZE", "cmd_MDTM"}

\* the platform outcomes a command can meet; the ones its handler never
\* consults (the transfer loop, when no data connection opens) are held at
\* success
Envs(line) ==
    LET p == ftp_parse_command_line(line, CommandBufSize, FTP_CMD_BUFFER_SIZE)
        idx == IF p.err = FTP_OK THEN ftp_find_command(p.command) ELSE 0
        h == IF idx = 0 THEN "none" ELSE command_table[idx].handler
    IN  {e \in [send_ok : BOOLEAN,
                data    : IF h \in DataVerbs THEN {"ok", "timeout", "fail"} ELSE {"ok"},
                fs_ok   : IF h \in DataVerbs \cup FileVerbs THEN BOOLEAN ELSE {TRUE},
                xfer_ok : IF h \in DataVerbs THEN BOOLEAN ELSE {TRUE},
                sock_ok : IF h = "cmd_PASV" THEN BOOLEAN ELSE {TRUE}] :
            e.data # "ok" => e.xfer_ok}

SessionInit ==
    /\ SessionIdle
    /\ PathIdle
    /\ ServerIdle
    /\ PoolIdle
    /\ ControlIdle
    /\ CryptoIdle
    /\ FrameIdle

\* the 220 greeting before the loop
Greeting ==
    /\ pc = "greet"
    /\ \E ok \in BOOLEAN :
          LET o == ftp_session_send_reply(Outcome(session), 220, [send_ok |-> ok])
          IN  obs' = [NoObs EXCEPT !.event = "greeting", !.replies = o.replies,
                                   !.io = o.io, !.ret = o.ret]
    /\ pc' = "loop"
    /\ UNCHANGED <<session, pathVars, serverVars, poolVars, controlVars, cryptoVars, frame>>

\* the idle check at the top of the loop: 421 and break
IdleTimeout ==
    /\ pc = "loop"
    /\ \E ok \in BOOLEAN :
          LET o == ftp_session_send_reply(Outcome(session), 421, [send_ok |-> ok])
          IN  obs' = [NoObs EXCEPT !.event = "idle_timeout", !.replies = o.replies,
                                   !.io = o.io, !.ret = o.ret]
    /\ pc' = "exit"
    /\ UNCHANGED <<session, pathVars, serverVars, poolVars, controlVars, cryptoVars, frame>>

\* ftp_session_read_command returns 0 (peer closed, or an empty line) or a
\* receive error: break
ReadClosed ==
    /\ pc = "loop"
    /\ obs' = [NoObs EXCEPT !.event = "read_closed"]
    /\ pc' = "exit"
    /\ UNCHANGED <<session, pathVars, serverVars, poolVars, controlVars, cryptoVars, frame>>

\* ftp_session_read_command returns FTP_ERR_TIMEOUT, or FTP_ERR_PROTOCOL
\* after answering 500 to an over-long line: continue
ReadRetry ==
    /\ pc = "loop"
    /\ \/ obs' = [NoObs EXCEPT !.event = "read_timeout", !.ret = FTP_ERR_TIMEOUT]
       \/ \E ok \in BOOLEAN :
            LET o == ftp_session_send_reply(Outcome(session), 500, [send_ok |-> ok])
            IN  obs' = [NoObs EXCEPT !.event = "read_too_long", !.replies = o.replies,
                                     !.io = Append(<<SocketIO("ctrl", "rx", session)>>, o.io[1]),
                                     !.ret = FTP_ERR_PROTOCOL]
    /\ UNCHANGED <<session, pc, pathVars, serverVars, poolVars, controlVars, cryptoVars, frame>>

\* one line read and dispatched, then the command counter
Command ==
    /\ pc = "loop"
    /\ session.commands_processed < MaxCommands
    /\ \E line \in ClientLines : \E env \in Envs(line) :
          LET d == ftp_session_process_command(session, line, env) IN
          /\ session' = [d.s EXCEPT !.commands_processed = @ + 1]
          /\ obs' = [event |-> "command", line |-> line, handler |-> d.handler,
                     replies |-> d.replies,
                     io |-> <<SocketIO("ctrl", "rx", session)>> \o d.io,
                     ret |-> d.ret, result |-> d.result]
          /\ pc' = IF d.result = 1 THEN "exit" ELSE "loop"
    /\ UNCHANGED <<pathVars, serverVars, poolVars, controlVars, cryptoVars, frame>>

\* ftp_session_cleanup after the loop
Cleanup ==
    /\ pc = "exit"
    /\ session' = ftp_session_cleanup(session)
    /\ obs' = [NoObs EXCEPT !.event = "cleanup"]
    /\ pc' = "done"
    /\ UNCHANGED <<pathVars, serverVars, poolVars, controlVars, cryptoVars, frame>>

SessionNext ==
    \/ Greeting
    \/ IdleTimeout
    \/ ReadClosed
    \/ ReadRetry
    \/ Command
    \/ Cleanup

SpecSession == SessionInit /\ [][SessionNext]_vars

\* C2: in every reachable session state session.cwd equals session.root_path
\* or begins with session.root_path immediately followed by '/'.
C2_CwdWithinRoot ==
    \/ session.cwd = session.root_path
    \/ /\ Len(session.cwd) > Len(session.root_path)
       /\ SubSeq(session.cwd, 1, Len(session.root_path)) = session.root_path
       /\ session.cwd[Len(session.root_path) + 1] = "/"

\* C3: a command line is decided in the order 500 (verb not in the command
\* table), 530 (not authenticated and verb outside USER, PASS, QUIT, NOOP,
\* FEAT, SYST), 501 (argument presence against the verb's arity rule), handler;
\* in the first three cases no handler runs and the session is left as it was.
C3_DispatchOrder ==
    [][obs'.event = "command" =>
        LET line == obs'.line
            spaces == {i \in 1..Len(line) : line[i] = " "}
            sp == IF spaces = {} THEN Len(line) + 1
                  ELSE CHOOSE i \in spaces : \A j \in spaces : i <= j
            open == { <<"U","S","E","R">>, <<"P","A","S","S">>, <<"Q","U","I","T">>,
                      <<"N","O","O","P">>, <<"F","E","A","T">>, <<"S","Y","S","T">> }
            untouched == [session' EXCEPT !.commands_processed = session.commands_processed]
                             = session
            refused(code) == /\ obs'.replies = <<code>>
                             /\ obs'.handler = "none"
                             /\ untouched
        IN  \A verb \in {[i \in 1..(sp - 1) |-> toupper(line[i])]} :
            \A hasArgs \in {\E i \in (sp + 1)..Len(line) : line[i] # " "} :
            \A entries \in {{i \in 1..Len(command_table) : command_table[i].name = verb}} :
                IF entries = {} THEN refused(500)
                ELSE IF session.authenticated = 0 /\ verb \notin open THEN refused(530)
                ELSE \A entry \in {command_table[CHOOSE i \in entries : TRUE]} :
                         IF \/ entry.args_req = FTP_ARGS_NONE /\ hasArgs
                            \/ entry.args_req = FTP_ARGS_REQUIRED /\ ~hasArgs
                         THEN refused(501)
                         ELSE obs'.handler = entry.handler
    ]_vars

\* an authenticated client is refused at the arity rule, the third test
C3_Witness ==
    /\ obs.event = "command"
    /\ session.authenticated = 1
    /\ obs.line = <<"C","W","D">>
    /\ obs.replies = <<501>>
    /\ obs.handler = "none"

\* C4: once crypto.active = 1, every transfer on the control and the data
\* socket passes through ftp_crypto_xor exactly once.
C4_EveryByteXored ==
    \A i \in 1..Len(obs.io) : obs.io[i].active = 1 => obs.io[i].xor_passes = 1

\* C5 (as stated): data_mode = Active implies the stored data address has the
\* peer's IPv4 address, and a PORT naming any other address is answered 501
\* and leaves data_mode = None.
C5_PortOtherAddressResetsMode ==
    [][(/\ obs'.event = "command"
        /\ obs'.handler = "cmd_PORT"
        /\ LET v == ScanList(SubSeq(obs'.line, 6, Len(obs'.line)), 6, <<>>)
           IN  /\ Len(v) = 6
               /\ \A i \in 1..6 : v[i] <= 255
               /\ <<v[1], v[2], v[3], v[4]>> # session.ctrl_addr.ip)
       => /\ obs'.replies = <<501>>
          /\ session'.data_mode = FTP_DATA_MODE_NONE
    ]_vars

\* C5 (amended): data_mode = Active implies the stored data address has the
\* peer's IPv4 address; a PORT naming any other address is answered 501, and
\* it leaves data_mode = None when its port is not 0, while with port 0 it
\* leaves data_mode and the stored data address as they were.
C5_ActiveOnlyToPeer ==
    /\ [](session.data_mode = FTP_DATA_MODE_ACTIVE
              => session.data_addr.ip = session.ctrl_addr.ip)
    /\ [][(/\ obs'.event = "command"
           /\ obs'.handler = "cmd_PORT"
           /\ LET v == ScanList(SubSeq(obs'.line, 6, Len(obs'.line)), 6, <<>>)
              IN  /\ Len(v) = 6
                  /\ \A i \in 1..6 : v[i] <= 255
                  /\ <<v[1], v[2], v[3], v[4]>> # session.ctrl_addr.ip)
          => LET v == ScanList(SubSeq(obs'.line, 6, Len(obs'.line)), 6, <<>>)
             IN  /\ obs'.replies = <<501>>
                 /\ (v[5] * 256 + v[6] # 0) => session'.data_mode = FTP_DATA_MODE_NONE
                 /\ (v[5] * 256 + v[6] = 0) =>
                        /\ session'.data_mode = session.data_mode
                        /\ session'.data_addr = session.data_addr
       ]_vars

\* a PORT for a third-party address has been refused and the mode is None
C5_Witness ==
    /\ obs.event = "command"
    /\ obs.line = <<"P","O","R","T"," ","1","2","7",",","0",",","0",",","1",",","0",",","2","1">>
    /\ obs.replies = <<501>>
    /\ session.data_mode = FTP_DATA_MODE_NONE
    /\ session.authenticated = 1

\* C6: after the third failed USER attempt has been answered 530 the worker
\* has left its command loop, so that no further command is read.
C6_ThirdFailureLeavesLoop ==
    (/\ obs.event = "command"
     /\ obs.handler = "cmd_USER"
     /\ obs.replies = <<530>>
     /\ session.auth_attempts >= FTP_MAX_AUTH_ATTEMPTS)
        => pc # "loop"

\* C12: after any RETR, STOR or APPE command has completed, whatever its
\* outcome, session.restart_offset is 0.
C12_RestartOffsetCleared ==
    (/\ obs.event = "command"
     /\ obs.handler \in {"cmd_RETR", "cmd_STOR", "cmd_APPE"})
        => session.restart_offset = 0

\* C13: after any RNTO command has completed (250, 503 or 550),
\* session.rename_from is the empty string.
C13_RenameSourceClearedByRNTO ==
    (/\ obs.event = "command"
     /\ obs.handler = "cmd_RNTO")
        => /\ session.rename_from = <<>>
           /\ obs.replies \in {<<250>>, <<503>>, <<550>>}

\* an RNTO after a successful RNFR failed at the rename and was answered 550
C13_Witness ==
    /\ obs.event = "command"
    /\ obs.handler = "cmd_RNTO"
    /\ obs.replies = <<550>>
    /\ session.rename_from = <<>>

\* C14: an RNFR answered 550 leaves session.rename_from empty, also when an
\* earlier RNFR had succeeded.
C14_FailedRNFRClearsSource ==
    (/\ obs.event = "command"
     /\ obs.handler = "cmd_RNFR"
     /\ obs.replies = <<550>>)
        => session.rename_from = <<>>

\* C17: when the write of a reply to the control socket fails, the worker has
\* left its command loop.
C17_ReplyFailureLeavesLoop ==
    (/\ obs.event = "command"
     /\ obs.replies # <<>>
     /\ obs.ret = FTP_ERR_SOCKET_SEND)
        => pc # "loop"

\* C19: for LIST, NLST, MLSD, RETR, STOR and APPE, data_fd is -1 at the moment
\* the terminal reply 226, 426 or 451 is written to the control socket.
C19_DataClosedBeforeTerminalReply ==
    (/\ obs.event = "command"
     /\ obs.handler \in DataVerbs)
        => \A i \in 1..Len(obs.io) :
               (/\ obs.io[i].chan = "ctrl"
                /\ obs.io[i].code \in {226, 426, 451})
                   => obs.io[i].data_fd = -1

\* an upload whose data connection was opened and used was aborted with 426
C19_Witness ==
    /\ obs.event = "command"
    /\ obs.handler = "cmd_STOR"
    /\ obs.replies = <<150, 426>>
    /\ \E i \in 1..Len(obs.io) : obs.io[i].chan = "data" /\ obs.io[i].data_fd >= 0

\* C20: whenever the worker is about to read the next command line,
\* session.data_fd = -1.
C20_NoDataSocketAcrossCommands ==
    pc = "loop" => session.data_fd = -1

\* a download over an opened data connection has completed and the worker is
\* back at the top of its loop
C20_Witness ==
    /\ pc = "loop"
    /\ obs.event = "command"
    /\ obs.handler = "cmd_RETR"
    /\ obs.replies = <<150, 226>>
    /\ \E i \in 1..Len(obs.io) : obs.io[i].chan = "data" /\ obs.io[i].data_fd >= 0
    /\ session.data_fd = -1

\* C21: a passive listener held in session.pasv_fd is closed by the next PORT
\* or PASV before it takes effect, so that a listener is open only in passive
\* mode: pasv_fd >= 0 implies data_mode = Passive.
C21_ListenerOnlyInPassiveMode ==
    session.pasv_fd >= 0 => session.data_mode = FTP_DATA_MODE_PASSIVE

\* C22: when a read or write on the data channel of LIST, NLST, MLSD, RETR,
\* STOR or APPE fails after the connection was opened, the terminal reply is
\* 426, never 226, and the worker goes on to read the next command.
C22_DataFailureAnswered426 ==
    (/\ obs.event = "command"
     /\ obs.handler \in DataVerbs
     /\ \E i \in 1..Len(obs.io) : obs.io[i].chan = "data" /\ obs.io[i].failed)
        => /\ obs.replies # <<>>
           /\ obs.replies[Len(obs.replies)] = 426
           /\ pc = "loop"

\* C23: in every reachable session state authenticated = 1 implies
\* user_ok = 1, whatever USER and PASS commands were issued, before and after
\* a successful login.
C23_AuthenticatedImpliesUserOk ==
    session.authenticated = 1 => session.user_ok = 1

\* C24: a QUIT without argument is answered 221 in any session state and is
\* the last command dispatched: the worker leaves its loop with the control
\* socket still open when the 221 is written, the next step is the cleanup
\* that closes the socket, and no further command line is dispatched.
C24_QuitIsLastCommand ==
    /\ []((/\ obs.event = "command"
            /\ obs.line = <<"Q","U","I","T">>)
              => /\ obs.handler = "cmd_QUIT"
                 /\ obs.replies = <<221>>
                 /\ obs.io[Len(obs.io)].code = 221
                 /\ session.ctrl_fd >= 0
                 /\ pc = "exit")
    /\ [][(/\ obs.event = "command"
            /\ obs.handler = "cmd_QUIT")
              => /\ obs'.event = "cleanup"
                 /\ session'.ctrl_fd = -1
                 /\ pc' = "done"]_vars

\* a logged-in client has sent QUIT
C24_Witness ==
    /\ obs.event = "command"
    /\ obs.handler = "cmd_QUIT"
    /\ obs.replies = <<221>>
    /\ session.authenticated = 1
    /\ session.commands_processed < MaxCommands
    /\ pc = "exit"

(***************************************************************************)
(* The same worker serving a client that logs in and downloads one regular *)
(* file, with and without REST                                             *)
(***************************************************************************)
\* bound on the commands of the downloading client
MaxTransferCommands == 6

TransferLines ==
    { <<"U","S","E","R"," ","f","t","p">>,
      <<"P","A","S","S"," ","r">>,
      <<"P","A","S","V">>,
      <<"A","U","T","H"," ","X","C","R","Y","P","T">>,
      <<"R","E","S","T"," ","2">>,
      <<"R","E","S","T"," ","4">>,
      <<"R","E","S","T"," ","9">>,
      <<"R","E","T","R"," ","r">> }

\* the file is there and vfs_open succeeds; sockets and the transfer loop
\* may fail
TransferEnvs(line) == {e \in Envs(line) : e.fs_ok}

TransferCommand ==
    /\ pc = "loop"
    /\ session.commands_processed < MaxTransferCommands
    /\ \E line \in TransferLines : \E env \in TransferEnvs(line) :
          LET d == ftp_session_process_command(session, line, env) IN
          /\ session' = [d.s EXCEPT !.commands_processed = @ + 1]
          /\ obs' = [event |-> "command", line |-> line, handler |-> d.handler,
                     replies |-> d.replies,
                     io |-> <<SocketIO("ctrl", "rx", session)>> \o d.io,
                     ret |-> d.ret, result |-> d.result]
          /\ pc' = IF d.result = 1 THEN "exit" ELSE "loop"
    /\ UNCHANGED <<pathVars, serverVars, poolVars, controlVars, cryptoVars, frame>>

TransferNext ==
    \/ Greeting
    \/ IdleTimeout
    \/ ReadClosed
    \/ ReadRetry
    \/ TransferCommand
    \/ Cleanup

SpecTransfer == SessionInit /\ [][TransferNext]_vars

\* the file bytes that went out on the data channel, as <<first, count>> pairs
DataSent(io) ==
    LET d == SelectSeq(io, LAMBDA r : r.chan = "data" /\ r.dir = "tx")
    IN  [i \in 1..Len(d) |-> <<d[i].first, d[i].count>>]

\* C25: for a regular file of FileSize bytes and restart_offset = k, a RETR
\* that completes with 226 has sent exactly the bytes k .. FileSize - 1; with
\* k > FileSize it is answered 550 alone and no data connection is opened;
\* either way the offset is 0 afterwards, and only REST makes it non-zero, so
\* that the next RETR without a new REST sends the whole file.
C25_RestartedDownload ==
    /\ [][(/\ obs'.event = "command"
            /\ obs'.handler = "cmd_RETR")
              => LET k == session.restart_offset
                     last == obs'.replies[Len(obs'.replies)]
                 IN  /\ (k <= FileSize /\ last = 226)
                            => /\ DataSent(obs'.io) =
                                     IF k < FileSize THEN << <<k, FileSize - k>> >>
                                     ELSE <<>>
                               /\ session'.restart_offset = 0
                     /\ k <= FileSize => last # 550
                     /\ k > FileSize
                            => /\ obs'.replies = <<550>>
                               /\ \A i \in 1..Len(obs'.io) :
                                     /\ obs'.io[i].chan = "ctrl"
                                     /\ obs'.io[i].data_fd = -1
                               /\ session'.data_mode = session.data_mode
                               /\ session'.pasv_fd = session.pasv_fd
                               /\ session'.restart_offset = 0]_vars
    /\ [][(obs'.event = "command" /\ obs'.handler = "cmd_REST")
              \/ session'.restart_offset \in {0, session.restart_offset}]_vars

\* after REST 2 a download has completed with the last FileSize - 2 bytes
C25_Witness ==
    /\ obs.event = "command"
    /\ obs.handler = "cmd_RETR"
    /\ obs.replies = <<150, 226>>
    /\ DataSent(obs.io) = << <<2, FileSize - 2>> >>
    /\ session.restart_offset = 0

(***************************************************************************)
(* The control channel byte by byte (ftp_session_thread and                *)
(* ftp_session_read_command): the client's byte stream reaches the worker  *)
(* in recv chunks, with timeouts and interruptions in between.  The        *)
(* command buffer and ctrl_rxbuf have CtrlBufSize bytes.                   *)
(***************************************************************************)
\* size of cmd_buffer and of ctrl_rxbuf (FTP_CMD_BUFFER_SIZE in the source)
CtrlBufSize == 7

\* bound on the lines the client begins
MaxLines == 2

\* the lines a client sends that fit the buffer; an over-long line is made of
\* "X" bytes, which occur in no other line
ShortLines == { <<"Q","U","I","T">>, <<"x">>, <<>> }

CRLF == <<"\r", "\n">>

\* the next byte the client can send, with the client's state after it: the
\* rest of the line begun, one more byte of an over-long line or the start of
\* its terminator once it has outgrown the buffer, or the start of a new line
PeerStep(c) ==
    IF c.rest # <<>>
    THEN {[b |-> Head(c.rest), peer |-> [c EXCEPT !.rest = Tail(@)]]}
    ELSE IF c.long > 0
    THEN {[b |-> "X", peer |-> [c EXCEPT !.long = IF @ < CtrlBufSize THEN @ + 1 ELSE @]]}
         \cup (IF c.long >= CtrlBufSize
               THEN {[b |-> "\r", peer |-> [c EXCEPT !.long = 0, !.rest = <<"\n">>]]}
               ELSE {})
    ELSE IF c.started < MaxLines
    THEN {[b |-> Head(l \o CRLF),
           peer |-> [c EXCEPT !.rest = Tail(l \o CRLF), !.started = @ + 1]] :
             l \in ShortLines}
         \cup {[b |-> "X", peer |-> [c EXCEPT !.long = 1, !.started = @ + 1]]}
    ELSE {}

\* what one PAL_RECV of at most n bytes can deliver: [bytes, peer]
RECURSIVE Chunks(_, _)
Chunks(c, n) ==
    IF n = 0 THEN {}
    ELSE UNION {{[bytes |-> <<st.b>>, peer |-> st.peer]}
                \cup {[bytes |-> <<st.b>> \o more.bytes, peer |-> more.peer] :
                         more \in Chunks(st.peer, n - 1)} :
                st \in PeerStep(c)}

\* the for loop of ftp_session_read_command from index i (1-based) of the
\* buffered bytes: it returns a line ("line"), the over-long verdict
\* ("too_long"), or runs out of buffered bytes ("more")
RECURSIVE ScanFrom(_, _, _, _, _, _)
ScanFrom(rxbuf, off, i, out, too_long, size) ==
    IF i > Len(rxbuf)
    THEN [ret |-> "more", ctrl_rxbuf |-> rxbuf, ctrl_rx_off |-> off,
          buffer |-> out, too_long |-> too_long]
    ELSE LET c == rxbuf[i]
             fits == too_long = 0 /\ Len(out) < size - 1
             out1 == IF fits THEN Append(out, c) ELSE out
             long1 == IF too_long = 0 /\ ~fits THEN 1 ELSE too_long
             rest == IF i >= Len(rxbuf) THEN <<>> ELSE rxbuf
             off1 == IF i >= Len(rxbuf) THEN 0 ELSE i
         IN  IF c # "\n" THEN ScanFrom(rxbuf, off, i + 1, out1, long1, size)
             ELSE IF long1 # 0
             THEN [ret |-> "too_long", ctrl_rxbuf |-> rest, ctrl_rx_off |-> off1,
                   buffer |-> out1, too_long |-> long1]
             ELSE IF Len(out1) >= 2 /\ out1[Len(out1) - 1] = "\r"
             THEN [ret |-> "line", ctrl_rxbuf |-> rest, ctrl_rx_off |-> off1,
                   buffer |-> SubSeq(out1, 1, Len(out1) - 2), too_long |-> long1]
             ELSE ScanFrom(rest, off1, i + 1, <<>>, long1, size)

\* top of the loop of ftp_session_thread: the idle check (421 and break),
\* else the call of ftp_session_read_command with its fresh locals
CtlTop ==
    /\ ctl.pc = "top"
    /\ IF ctl.expired
       THEN \E ok \in BOOLEAN :
              LET o == ftp_session_send_reply(Outcome(session), 421, [send_ok |-> ok])
              IN  /\ rdobs' = [event |-> "idle_timeout", line |-> <<>>,
                               replies |-> o.replies]
                  /\ ctl' = [ctl EXCEPT !.pc = "exit"]
       ELSE /\ rdobs' = [event |-> "call", line |-> <<>>, replies |-> <<>>]
            /\ ctl' = [ctl EXCEPT !.pc = "scan", !.buffer = <<>>, !.too_long = 0]
    /\ UNCHANGED <<session, pc, obs, peer, pathVars, serverVars, poolVars, cryptoVars, frame>>

\* ftp_session_read_command: the scan of the buffered bytes.  A line goes
\* back to the worker (an empty one as the return value 0, on which the
\* worker breaks); an over-long line is answered 500 and the worker
\* continues; else the locals are adjusted for the PAL_RECV that follows
CtlScan ==
    /\ ctl.pc = "scan"
    /\ \E ok \in BOOLEAN :
       \E r \in {ScanFrom(ctl.ctrl_rxbuf, ctl.ctrl_rx_off, ctl.ctrl_rx_off + 1,
                          ctl.buffer, ctl.too_long, CtrlBufSize)} :
          CASE r.ret = "too_long" ->
                 /\ ctl' = [ctl EXCEPT !.pc = "top", !.ctrl_rxbuf = r.ctrl_rxbuf,
                                       !.ctrl_rx_off = r.ctrl_rx_off,
                                       !.buffer = r.buffer, !.too_long = r.too_long]
                 /\ rdobs' = [event |-> "too_long", line |-> <<>>,
                              replies |-> ftp_session_send_reply(Outcome(session), 500,
                                              [send_ok |-> ok]).replies]
            [] r.ret = "line" ->
                 /\ ctl' = [ctl EXCEPT !.pc = IF r.buffer = <<>> THEN "exit" ELSE "dispatch",
                                       !.ctrl_rxbuf = r.ctrl_rxbuf,
                                       !.ctrl_rx_off = r.ctrl_rx_off,
                                       !.buffer = r.buffer, !.too_long = r.too_long]
                 /\ rdobs' = [event |-> IF r.buffer = <<>> THEN "empty_line" ELSE "line",
                              line |-> r.buffer, replies |-> <<>>]
            [] r.ret = "more" ->
                 /\ ctl' = [ctl EXCEPT !.pc = "recv",
                                       !.ctrl_rxbuf = IF r.ctrl_rx_off >= Len(r.ctrl_rxbuf)
                                                      THEN <<>> ELSE r.ctrl_rxbuf,
                                       !.ctrl_rx_off = IF r.ctrl_rx_off >= Len(r.ctrl_rxbuf)
                                                       THEN 0 ELSE r.ctrl_rx_off,
                                       !.buffer = IF r.too_long # 0 THEN <<>> ELSE r.buffer,
                                       !.too_long = r.too_long]
                 /\ rdobs' = [event |-> "more", line |-> <<>>, replies |-> <<>>]
    /\ UNCHANGED <<session, pc, obs, peer, pathVars, serverVars, poolVars, cryptoVars, frame>>

\* PAL_RECV delivers bytes, which replace the content of ctrl_rxbuf
CtlRecvBytes ==
    /\ ctl.pc = "recv"
    /\ \E c \in Chunks(peer, CtrlBufSize) :
          /\ ctl' = [ctl EXCEPT !.pc = "scan", !.ctrl_rxbuf = c.bytes, !.ctrl_rx_off = 0]
          /\ peer' = c.peer
    /\ rdobs' = [event |-> "bytes", line |-> <<>>, replies |-> <<>>]
    /\ UNCHANGED <<session, pc, obs, pathVars, serverVars, poolVars, cryptoVars, frame>>

\* PAL_RECV fails with EINTR: continue, which scans the buffered bytes again
CtlRecvInterrupted ==
    /\ ctl.pc = "recv"
    /\ ctl' = [ctl EXCEPT !.pc = "scan"]
    /\ rdobs' = [event |-> "eintr", line |-> <<>>, replies |-> <<>>]
    /\ UNCHANGED <<session, pc, obs, peer, pathVars, serverVars, poolVars, cryptoVars, frame>>

\* PAL_RECV returns 0 (the peer closed) or fails: FTP_ERR_TIMEOUT for EAGAIN,
\* on which the worker continues, else a break
CtlRecvEnds ==
    /\ ctl.pc = "recv"
    /\ \E end \in {"peer_closed", "timeout", "recv_error"} :
          /\ ctl' = [ctl EXCEPT !.pc = IF end = "timeout" THEN "top" ELSE "exit"]
          /\ rdobs' = [event |-> end, line |-> <<>>, replies |-> <<>>]
    /\ UNCHANGED <<session, pc, obs, peer, pathVars, serverVars, poolVars, cryptoVars, frame>>

\* the worker with a line: last_activity = time(NULL), the command is
\* processed and counted; QUIT ends the loop
CtlDispatch ==
    /\ ctl.pc = "dispatch"
    /\ \E ok \in BOOLEAN :
          LET d == ftp_session_process_command(session, ctl.buffer,
                       [send_ok |-> ok, data |-> "ok", fs_ok |-> TRUE,
                        xfer_ok |-> TRUE, sock_ok |-> TRUE])
          IN  /\ session' = [d.s EXCEPT !.commands_processed = @ + 1]
              /\ ctl' = [ctl EXCEPT !.pc = IF d.result = 1 THEN "exit" ELSE "top",
                                    !.expired = FALSE]
              /\ rdobs' = [event |-> IF d.result = 1 THEN "quit" ELSE "dispatch",
                           line |-> ctl.buffer, replies |-> d.replies]
    /\ UNCHANGED <<pc, obs, peer, pathVars, serverVars, poolVars, cryptoVars, frame>>

\* ftp_session_cleanup after the loop
CtlCleanup ==
    /\ ctl.pc = "exit"
    /\ session' = ftp_session_cleanup(session)
    /\ ctl' = [ctl EXCEPT !.pc = "done"]
    /\ UNCHANGED <<pc, obs, peer, rdobs, pathVars, serverVars, poolVars, cryptoVars, frame>>

\* time passes: now - last_activity grows beyond FTP_SESSION_TIMEOUT
Tick ==
    /\ ctl.pc # "done"
    /\ ~ctl.expired
    /\ ctl' = [ctl EXCEPT !.expired = TRUE]
    /\ UNCHANGED <<session, pc, obs, peer, rdobs, pathVars, serverVars, poolVars, cryptoVars, frame>>

ControlInit ==
    /\ ControlIdle
    /\ CryptoIdle
    /\ FrameIdle
    /\ SessionIdle
    /\ PathIdle
    /\ ServerIdle
    /\ PoolIdle

ControlNext ==
    \/ CtlTop
    \/ CtlScan
    \/ CtlRecvBytes
    \/ CtlRecvInterrupted
    \/ CtlRecvEnds
    \/ CtlDispatch
    \/ CtlCleanup
    \/ Tick

SpecControl == ControlInit /\ [][ControlNext]_vars

\* the worker is scheduled, every PAL_RECV on the control socket ends within
\* FTP_CTRL_IO_TIMEOUT_MS with something other than EINTR, and time passes
SpecControlLive ==
    /\ SpecControl
    /\ WF_vars(CtlTop)
    /\ WF_vars(CtlScan)
    /\ SF_vars(CtlRecvBytes \/ CtlRecvEnds)
    /\ WF_vars(CtlDispatch)
    /\ WF_vars(CtlCleanup)
    /\ WF_vars(Tick)

\* C15: a line longer than the command buffer is answered 500 and the worker
\* continues, and none of its bytes is dispatched as a command or as part of
\* one, however the stream is cut into recv chunks and whatever read timeouts
\* fall between them.
C15_OverlongLineDiscarded ==
    /\ rdobs.event = "too_long" => rdobs.replies = <<500>> /\ ctl.pc = "top"
    /\ rdobs.event \in {"line", "dispatch", "quit"}
           => \A i \in 1..Len(rdobs.line) : rdobs.line[i] # "X"

\* C16: the worker leaves its command loop only for QUIT, a closed control
\* connection (recv returns 0), a control-channel I/O error or the idle
\* timeout (authentication exhaustion does not occur in these sessions); an
\* empty line, an unknown verb and an over-long line leave it in the loop.
C16_LoopLeftOnlyForListedCauses ==
    /\ ctl.pc = "exit"
           => rdobs.event \in {"quit", "peer_closed", "recv_error", "idle_timeout"}
    /\ rdobs.event \in {"empty_line", "dispatch", "too_long"} => ctl.pc = "top"

\* C18: a session in which from some point on no complete command line
\* arrives sends 421 and terminates, or ends earlier because the client
\* closed the connection or the control channel failed.
C18_IdleSessionTerminates ==
    (<>[](ctl.pc # "dispatch")) => <>(ctl.pc = "done")

\* the control channel when no PAL_RECV is interrupted by a signal: the only
\* failures between chunks are read timeouts, a closed peer or a socket error
ReadNext ==
    \/ CtlTop
    \/ CtlScan
    \/ CtlRecvBytes
    \/ CtlRecvEnds
    \/ CtlDispatch
    \/ CtlCleanup
    \/ Tick

SpecRead == ControlInit /\ [][ReadNext]_vars

\* C31: a CRLF-terminated line that fits the command buffer comes back from
\* ftp_session_read_command exactly as the client sent it, however it is cut
\* into recv chunks and whatever read timeouts (EAGAIN) fall between the
\* chunks: a line returned without a byte of an over-long line is one of the
\* lines the client sends, with no byte lost, duplicated or merged.
C31_LineReturnedIntact ==
    (/\ rdobs.event \in {"line", "empty_line"}
     /\ \A i \in 1..Len(rdobs.line) : rdobs.line[i] # "X")
        => rdobs.line \in ShortLines

\* command lines of exactly CtrlBufSize bytes with their CRLF
ExactLines == { [i \in 1..(CtrlBufSize - 2) |-> c] : c \in {"N", "x"} }

\* the client sends one line of exactly the size of the command buffer
ExactInit ==
    /\ ctl = [pc |-> "top", ctrl_rxbuf |-> <<>>, ctrl_rx_off |-> 0, buffer |-> <<>>,
              too_long |-> 0, expired |-> FALSE]
    /\ peer \in {[rest |-> l \o CRLF, long |-> 0, started |-> MaxLines] : l \in ExactLines}
    /\ rdobs = [event |-> "none", line |-> <<>>, replies |-> <<>>]
    /\ CryptoIdle
    /\ FrameIdle
    /\ SessionIdle
    /\ PathIdle
    /\ ServerIdle
    /\ PoolIdle

SpecExactLine == ExactInit /\ [][ControlNext]_vars

\* C34: a command line of exactly FTP_CMD_BUFFER_SIZE bytes including its
\* CRLF is accepted and dispatched: it is never answered 500 'Command too
\* long.', which is kept for longer lines.
C34_ExactSizeLineAccepted ==
    rdobs.event # "too_long"

(***************************************************************************)
(* The stream cipher (ftp_crypto.c).  A uint32_t is kept as two 16-bit     *)
(* halves [hi, lo], a byte as a number in 0..255; state[] and keystream[]  *)
(* are indexed from 0 as in the source, buffers from 1.                    *)
(***************************************************************************)
\* uint8_t keystream[64]
KeystreamSize == 64

\* bound on the length of a buffer handed to ftp_crypto_xor
MaxDataLen == 66

RECURSIVE XorBits(_, _, _)
XorBits(a, b, n) ==
    IF n = 0 THEN 0
    ELSE ((a + b) % 2) + 2 * XorBits(a \div 2, b \div 2, n - 1)

\* p[i] ^= keystream[...] with the bytes added instead
Xor8_as_sum(a, b) == (a + b) % 256

\* ^ on uint8_t
Xor8(a, b) == XorBits(a, b, 8)

\* ^ and + on uint32_t
Xor32(x, y) == [hi |-> XorBits(x.hi, y.hi, 16), lo |-> XorBits(x.lo, y.lo, 16)]

Add32(x, y) ==
    [hi |-> (x.hi + y.hi + (x.lo + y.lo) \div Half) % Half,
     lo |-> (x.lo + y.lo) % Half]

\* (v << n) | (v >> (32 - n)) for n in 1..31
rotl32(v, n) ==
    LET w == IF n >= 16 THEN [hi |-> v.lo, lo |-> v.hi] ELSE v
        m == n % 16
    IN  IF m = 0 THEN w
        ELSE [hi |-> ((w.hi * Pow2(m)) % Half) + (w.lo \div Pow2(16 - m)),
              lo |-> ((w.lo * Pow2(m)) % Half) + (w.hi \div Pow2(16 - m))]

\* x is the array of 16 words; a, b, c, d are indices into it
quarter_round(x, a, b, c, d) ==
    LET a1 == Add32(x[a], x[b])
        d1 == rotl32(Xor32(x[d], a1), 16)
        c1 == Add32(x[c], d1)
        b1 == rotl32(Xor32(x[b], c1), 12)
        a2 == Add32(a1, b1)
        d2 == rotl32(Xor32(d1, a2), 8)
        c2 == Add32(c1, d2)
        b2 == rotl32(Xor32(b1, c2), 7)
    IN  [x EXCEPT ![a] = a2, ![b] = b2, ![c] = c2, ![d] = d2]

\* p is a byte array indexed from 1, at is the C index of the first byte
load32_le(p, at) ==
    [hi |-> p[at + 3] + 256 * p[at + 4], lo |-> p[at + 1] + 256 * p[at + 2]]

store32_le(v) == <<v.lo % 256, v.lo \div 256, v.hi % 256, v.hi \div 256>>

\* the column rounds, then the diagonal rounds
DoubleRound(x) ==
    quarter_round(quarter_round(quarter_round(quarter_round(
    quarter_round(quarter_round(quarter_round(quarter_round(x,
        0, 4, 8, 12), 1, 5, 9, 13), 2, 6, 10, 14), 3, 7, 11, 15),
        0, 5, 10, 15), 1, 6, 11, 12), 2, 7, 8, 13), 3, 4, 9, 14)

\* i double rounds; each one is computed before the next starts
RECURSIVE Rounds(_, _)
Rounds(x, i) ==
    IF i = 0 THEN x
    ELSE CHOOSE r \in {Rounds(y, i - 1) : y \in {DoubleRound(x)}} : TRUE

\* the 64 bytes of one keystream block, indexed from 0
chacha20_block(state) ==
    LET x == Rounds(state, 10)
        sum == [i \in 0..15 |-> store32_le(Add32(x[i], state[i]))]
    IN  [k \in 0..(KeystreamSize - 1) |-> sum[k \div 4][(k % 4) + 1]]

\* "expand 32-byte k"
SIGMA == << [hi |-> 24944, lo |-> 30821], [hi |-> 13088, lo |-> 25710],
           [hi |-> 31074, lo |-> 11570], [hi |-> 27424, lo |-> 25972] >>

ftp_crypto_init(key, nonce) ==
    [state |-> [i \in 0..15 |->
                   IF i < 4 THEN SIGMA[i + 1]
                   ELSE IF i < 12 THEN load32_le(key, (i - 4) * 4)
                   ELSE IF i = 12 THEN CounterOf(0)
                   ELSE load32_le(nonce, (i - 13) * 4)],
     keystream |-> [k \in 0..(KeystreamSize - 1) |-> 0],
     ks_offset |-> KeystreamSize,
     active |-> 1,
     counter |-> CounterOf(0)]

\* the while loop of ftp_crypto_xor with p - data = done: [ctx, data]
RECURSIVE XorLoop(_, _, _)
XorLoop(ctx, data, done) ==
    IF done >= Len(data) THEN [ctx |-> ctx, data |-> data]
    ELSE LET fresh == IF ctx.ks_offset >= KeystreamSize
                      THEN LET st == [ctx.state EXCEPT ![12] = ctx.counter]
                           IN  [ctx EXCEPT !.state = st,
                                           !.keystream = chacha20_block(st),
                                           !.counter = CounterAdd(ctx.counter, 1),
                                           !.ks_offset = 0]
                      ELSE ctx
             remaining == Len(data) - done
             avail == KeystreamSize - fresh.ks_offset
             chunk == IF remaining < avail THEN remaining ELSE avail
         IN  XorLoop([fresh EXCEPT !.ks_offset = (@ + chunk) % 256],
                     [i \in 1..Len(data) |->
                         IF i > done /\ i <= done + chunk
                         THEN Xor8(data[i], fresh.keystream[fresh.ks_offset + (i - done - 1)])
                         ELSE data[i]],
                     done + chunk)

\* [ctx, data] after the call; len = 0 returns at once
\* ftp_crypto_xor beginning every call with a new keystream block
ftp_crypto_xor_new_block_per_call(ctx, data) ==
    XorLoop([ctx EXCEPT !.ks_offset = KeystreamSize], data, 0)

ftp_crypto_xor(ctx, data) == XorLoop(ctx, data, 0)

\* the keys, nonces and buffers of the harness
CryptoKeys == { [i \in 1..32 |-> 0], [i \in 1..32 |-> i - 1] }

CryptoNonces == { [i \in 1..12 |-> 0], <<0, 0, 0, 9, 0, 0, 0, 74, 0, 0, 0, 0>> }

CryptoBuffers ==
    UNION { { [i \in 1..n |-> 0], [i \in 1..n |-> (37 * i) % 256] } :
            n \in {0, 1, KeystreamSize, MaxDataLen} }

CryptoInit ==
    /\ crypto \in [pc : {"init"}, key : CryptoKeys, nonce : CryptoNonces,
                    B : CryptoBuffers, data : {<<>>}, cipher : {<<>>},
                    passes : {0}, ctx : {<<>>}]
    /\ SessionIdle
    /\ PathIdle
    /\ ServerIdle
    /\ PoolIdle
    /\ ControlIdle
    /\ FrameIdle

\* a context is initialised with (key, nonce); before the first pass the
\* buffer holds B
CryptoContext ==
    /\ crypto.pc = "init"
    /\ crypto' = [crypto EXCEPT !.pc = "xor",
                                !.ctx = ftp_crypto_init(crypto.key, crypto.nonce),
                                !.data = IF crypto.passes = 0 THEN crypto.B ELSE @]
    /\ UNCHANGED <<pathVars, sessionVars, serverVars, poolVars, controlVars, frame>>

\* one call of ftp_crypto_xor on the whole buffer
CryptoXor ==
    /\ crypto.pc = "xor"
    /\ \E r \in {ftp_crypto_xor(crypto.ctx, crypto.data)} :
          crypto' = [crypto EXCEPT !.pc = IF crypto.passes = 0 THEN "init" ELSE "done",
                                   !.ctx = r.ctx,
                                   !.data = r.data,
                                   !.cipher = IF crypto.passes = 0 THEN r.data ELSE @,
                                   !.passes = @ + 1]
    /\ UNCHANGED <<pathVars, sessionVars, serverVars, poolVars, controlVars, frame>>

CryptoNext ==
    \/ CryptoContext
    \/ CryptoXor

SpecCrypto == CryptoInit /\ [][CryptoNext]_vars

\* B goes through one context piece by piece: crypto.cuts are the lengths of
\* the pieces so far, crypto.data the output so far, and crypto.whole the
\* result of one call on all of B with a context initialised alike
MaxPieces == 3

PieceLens(remaining) ==
    {n \in {0, 1, KeystreamSize - 1, KeystreamSize, KeystreamSize + 1, remaining} :
        n <= remaining}

SplitInit ==
    /\ crypto \in [pc : {"init"}, key : CryptoKeys, nonce : CryptoNonces,
                    B : CryptoBuffers, data : {<<>>}, whole : {<<>>},
                    cuts : {<<>>}, ctx : {<<>>}]
    /\ SessionIdle
    /\ PathIdle
    /\ ServerIdle
    /\ PoolIdle
    /\ ControlIdle
    /\ FrameIdle

\* both contexts are initialised with (key, nonce)
SplitContext ==
    /\ crypto.pc = "init"
    /\ \E c \in {ftp_crypto_init(crypto.key, crypto.nonce)} :
          crypto' = [crypto EXCEPT !.pc = "whole", !.ctx = c,
                                   !.whole = [ctx |-> c, data |-> <<>>]]
    /\ UNCHANGED <<pathVars, sessionVars, serverVars, poolVars, controlVars, frame>>

\* one call of ftp_crypto_xor: the first on all of B with the second
\* context, each later one on the next n bytes of B with the first context
SplitCall ==
    /\ crypto.pc \in {"whole", "piece"}
    /\ Len(crypto.cuts) < MaxPieces
    /\ \E n \in IF crypto.pc = "whole" THEN {Len(crypto.B)}
                 ELSE PieceLens(Len(crypto.B) - Len(crypto.data)) :
       \E c \in {IF crypto.pc = "whole" THEN crypto.whole.ctx ELSE crypto.ctx} :
       \E piece \in {IF crypto.pc = "whole" THEN crypto.B
                     ELSE SubSeq(crypto.B, Len(crypto.data) + 1, Len(crypto.data) + n)} :
       \E r \in {ftp_crypto_xor(c, piece)} :
          crypto' = IF crypto.pc = "whole"
                    THEN [crypto EXCEPT !.pc = "piece", !.whole = r]
                    ELSE [crypto EXCEPT !.ctx = r.ctx,
                                        !.data = @ \o r.data,
                                        !.cuts = Append(@, n),
                                        !.pc = IF Len(crypto.data) + n = Len(crypto.B)
                                               THEN "done" ELSE "piece"]
    /\ UNCHANGED <<pathVars, sessionVars, serverVars, poolVars, controlVars, frame>>

SplitNext ==
    \/ SplitContext
    \/ SplitCall

SpecSplit == SplitInit /\ [][SplitNext]_vars

\* C39: the keystream position depends only on the number of bytes
\* processed: the output of the pieces of B so far is the beginning of the
\* output of one call on all of B, after k bytes the block counter is
\* ceil(k / 64) and ks_offset is in 0..64, and after the last piece output
\* and context are those of the one call.
C39_SplitsAgree ==
    crypto.pc \in {"piece", "done"}
        => LET k == Len(crypto.data) IN
           /\ k <= Len(crypto.B)
           /\ crypto.data = SubSeq(crypto.whole.data, 1, k)
           /\ crypto.ctx.counter = CounterOf((k + KeystreamSize - 1) \div KeystreamSize)
           /\ crypto.ctx.ks_offset \in 0..KeystreamSize
           /\ crypto.pc = "done" => /\ crypto.data = crypto.whole.data
                                    /\ crypto.ctx = crypto.whole.ctx

\* three pieces, the second of which runs across the end of the first
\* keystream block
C39_Witness ==
    /\ crypto.pc = "done"
    /\ crypto.cuts = <<1, KeystreamSize, 1>>
    /\ crypto.data = crypto.whole.data
    /\ crypto.data # crypto.B
    /\ crypto.ctx.counter = CounterOf(2)
    /\ crypto.ctx.ks_offset = 2

\* C27: for any buffer B and any (key, nonce), ftp_crypto_xor applied to B
\* with a freshly initialised context and then to the result with a second
\* context initialised with the same (key, nonce) yields B.
C27_XorTwiceIsIdentity ==
    crypto.pc = "done" => crypto.data = crypto.B

\* a buffer longer than one keystream block went through both passes, and
\* the first pass changed it
C27_Witness ==
    /\ crypto.pc = "done"
    /\ crypto.passes = 2
    /\ Len(crypto.B) > KeystreamSize
    /\ crypto.cipher # crypto.B
    /\ crypto.data = crypto.B
    /\ crypto.ctx.counter = CounterOf(2)

(***************************************************************************)
(* Path resolver: one call of ftp_path_resolve on a session whose cwd lies *)
(* within the root                                                         *)
(***************************************************************************)
RootedDirectories == {d \in Directories : ftp_path_is_within_root(d, RootPath) = 1}

PathInit ==
    /\ p_cwd \in RootedDirectories
    /\ p_input \in PathInputs
    /\ p_result = [done |-> FALSE, err |-> FTP_OK, out |-> <<>>]
    /\ SessionIdle
    /\ ServerIdle
    /\ PoolIdle
    /\ ControlIdle
    /\ CryptoIdle
    /\ FrameIdle

PathResolve ==
    /\ p_result.done = FALSE
    /\ LET r == ftp_path_resolve(p_cwd, p_input, PathMax)
       IN  p_result' = [done |-> TRUE, err |-> r.err, out |-> r.out]
    /\ UNCHANGED <<p_cwd, p_input, sessionVars, serverVars, poolVars, controlVars, cryptoVars, frame>>

PathNext == PathResolve

SpecPath == PathInit /\ [][PathNext]_vars

\* C1: every call of ftp_path_resolve returns an error or a path within the
\* session root; "../" from cwd = root and absolute paths outside the root
\* return FTP_ERR_PATH_INVALID.
C1_ResolveStaysInRoot ==
    p_result.done =>
        /\ p_result.err # FTP_OK \/ ftp_path_is_within_root(p_result.out, RootPath) = 1
        /\ (p_cwd = RootPath /\ p_input = <<".", ".", "/">>)
               => p_result.err = FTP_ERR_PATH_INVALID

(***************************************************************************)
(* Path normaliser: ftp_path_normalize called on a path and then on its    *)
(* own output, with an output buffer of size bytes                         *)
(***************************************************************************)
\* short paths over PathChars, and a short prefix followed by a run of 'r'
\* that reaches the length limit
NormalizeInputs ==
    PathInputs \cup
    { s \o [i \in 1..k |-> "r"] : s \in StringsUpTo(2), k \in (PathMax - 4)..(PathMax - 1) }

\* every caller passes a buffer of FTP_PATH_MAX bytes; the interface admits
\* any size >= FTP_PATH_MAX
NormalizeSizes == {PathMax, PathMax + 1}

NormalizeInit ==
    /\ p_cwd = RootPath
    /\ p_input \in NormalizeInputs
    /\ p_result \in [calls : {0}, size : NormalizeSizes, err : {FTP_OK}, out : {<<>>},
                      err2 : {FTP_OK}, out2 : {<<>>}]
    /\ SessionIdle
    /\ ServerIdle
    /\ PoolIdle
    /\ ControlIdle
    /\ CryptoIdle
    /\ FrameIdle

Normalize ==
    /\ p_result.calls = 0
    /\ LET r == ftp_path_normalize(p_input, p_result.size)
       IN  p_result' = [p_result EXCEPT !.calls = 1, !.err = r.err, !.out = r.out]
    /\ UNCHANGED <<p_cwd, p_input, sessionVars, serverVars, poolVars, controlVars, cryptoVars, frame>>

NormalizeAgain ==
    /\ p_result.calls = 1
    /\ p_result.err = FTP_OK
    /\ LET r == ftp_path_normalize(p_result.out, p_result.size)
       IN  p_result' = [p_result EXCEPT !.calls = 2, !.err2 = r.err, !.out2 = r.out]
    /\ UNCHANGED <<p_cwd, p_input, sessionVars, serverVars, poolVars, controlVars, cryptoVars, frame>>

NormalizeNext ==
    \/ Normalize
    \/ NormalizeAgain

SpecNormalize == NormalizeInit /\ [][NormalizeNext]_vars

\* starts with '/', no empty, "." or ".." component, no trailing slash unless
\* the path is "/"
Canonical(out) ==
    /\ out # <<>>
    /\ out[1] = "/"
    /\ out # <<"/">> => out[Len(out)] # "/"
    /\ \A i \in 1..(Len(out) - 1) : ~(out[i] = "/" /\ out[i + 1] = "/")
    /\ \A i \in 1..Len(strtok(out, <<>>, <<>>)) :
          strtok(out, <<>>, <<>>)[i] \notin {<<".">>, <<".", ".">>}

MaxDataCommands == 5

DataLines ==
    { <<"U","S","E","R"," ","f","t","p">>,
      <<"P","A","S","S"," ","r">>,
      <<"P","A","S","V">>,
      <<"P","O","R","T"," ","1","0",",","0",",","0",",","2",",","0",",","2","1">>,
      <<"L","I","S","T">>,
      <<"R","E","T","R"," ","r">>,
      <<"R","E","T","R"," ","a">>,
      <<"S","T","O","R"," ","r">> }

DataInit ==
    /\ SessionIdle
    /\ frame = [pc |-> "session", served |-> FALSE]
    /\ PathIdle
    /\ ServerIdle
    /\ PoolIdle
    /\ ControlIdle
    /\ CryptoIdle

\* the handler got as far as ftp_session_open_data_connection, and that
\* call succeeded
OpenedData(s, d, env) ==
    /\ d.handler \in DataVerbs
    /\ 150 \in {d.replies[i] : i \in 1..Len(d.replies)}
    /\ ftp_session_open_data_connection(s, env).err = FTP_OK

DataCommand ==
    /\ pc = "loop"
    /\ session.commands_processed < MaxDataCommands
    /\ \E line \in DataLines : \E env \in Envs(line) :
          LET d == ftp_session_process_command(session, line, env) IN
          /\ session' = [d.s EXCEPT !.commands_processed = @ + 1]
          /\ obs' = [event |-> "command", line |-> line, handler |-> d.handler,
                     replies |-> d.replies,
                     io |-> <<SocketIO("ctrl", "rx", session)>> \o d.io,
                     ret |-> d.ret, result |-> d.result]
          /\ frame' = [frame EXCEPT !.served =
                           IF d.handler \in {"cmd_PORT", "cmd_PASV"} THEN FALSE
                           ELSE IF OpenedData(session, d, env) THEN TRUE
                           ELSE @]
          /\ pc' = IF d.result = 1 THEN "exit" ELSE "loop"
    /\ UNCHANGED <<pathVars, serverVars, poolVars, controlVars, cryptoVars>>

DataNext ==
    \/ Greeting
    \/ IdleTimeout
    \/ ReadClosed
    \/ ReadRetry
    \/ DataCommand
    \/ Cleanup

SpecData == DataInit /\ [][DataNext]_vars

\* a transfer command runs while the negotiation has been used up
FurtherTransfer ==
    /\ frame.served
    /\ session'.commands_processed = session.commands_processed + 1
    /\ obs'.event = "command"
    /\ obs'.handler \in DataVerbs

NoDataIO(io) == \A i \in 1..Len(io) : io[i].chan # "data"

\* after a transfer command that opened the data connection, until the next
\* PORT or PASV
NegotiationUsedUp ==
    frame.served => /\ session.data_mode = FTP_DATA_MODE_NONE
                    /\ session.pasv_fd = -1
                    /\ session.data_fd = -1

\* C35 as stated: after a transfer command that opened the data connection,
\* data_mode = None and pasv_fd = -1, and every further transfer command
\* without a new PORT or PASV is answered 425 and transfers nothing.
C35_OneTransferPerNegotiation ==
    /\ []NegotiationUsedUp
    /\ [][FurtherTransfer
             => /\ NoDataIO(obs'.io)
                /\ obs'.replies # <<>>
                /\ obs'.replies[Len(obs'.replies)] = 425]_vars

\* C35 with the replies the handlers give before they come to the data
\* connection: the further transfer command transfers nothing and leaves
\* data_mode = None; it is answered 150 and 425 when its path argument passes
\* the handler's checks, and with the single reply 550 or 451 of that check
\* otherwise.
C35_OneTransferPerNegotiationOrRefusal ==
    /\ []NegotiationUsedUp
    /\ [][FurtherTransfer
             => /\ NoDataIO(obs'.io)
                /\ obs'.replies \in {<<150, 425>>, <<550>>, <<451>>}
                /\ session'.data_mode = FTP_DATA_MODE_NONE]_vars

\* a second download after a completed one, without a new PASV or PORT
C35_Witness ==
    /\ frame = [pc |-> "session", served |-> TRUE]
    /\ obs.event = "command"
    /\ obs.handler = "cmd_RETR"
    /\ obs.replies = <<150, 425>>
    /\ session.data_mode = FTP_DATA_MODE_NONE
    /\ session.pasv_fd = -1

(***************************************************************************)
(* Replies per command                                                     *)
(***************************************************************************)
FinalReplies(replies) == {i \in 1..Len(replies) : replies[i] >= 200}

\* C32: every command line handed to ftp_session_process_command is answered
\* with exactly one final reply (code >= 200) on the control channel, also
\* when the handler returns a non-OK result without having replied.
C32_OneFinalReplyPerCommand ==
    (obs.event = "command" /\ session.ctrl_fd >= 0)
        => Cardinality(FinalReplies(obs.replies)) = 1

(***************************************************************************)
(* Failed directory changes                                                *)
(***************************************************************************)
\* C30: a CWD or CDUP answered with 550 leaves session.cwd and every other
\* protocol field of the session as it was (only the count of processed
\* commands advances).
C30_FailedCwdKeepsSession ==
    [][(/\ session'.commands_processed = session.commands_processed + 1
        /\ obs'.event = "command"
        /\ obs'.handler \in {"cmd_CWD", "cmd_CDUP"}
        /\ obs'.replies = <<550>>)
           => session' = [session EXCEPT !.commands_processed = @ + 1]]_vars

\* a logged-in session that has left its root directory gets 550 for a CWD
C30_Witness ==
    /\ obs.event = "command"
    /\ obs.handler = "cmd_CWD"
    /\ obs.replies = <<550>>
    /\ session.authenticated = 1
    /\ session.cwd # session.root_path

(***************************************************************************)
(* Root containment: one call of ftp_path_is_within_root(path, root)       *)
(***************************************************************************)
\* the roots tried: "/" followed by at most two characters
WithinRoots == { <<"/">> \o s : s \in StringsUpTo(2) }

WithinInit ==
    /\ p_cwd \in WithinRoots
    /\ p_input \in PathInputs
    /\ p_result = [done |-> FALSE, within |-> 0]
    /\ SessionIdle
    /\ ServerIdle
    /\ PoolIdle
    /\ ControlIdle
    /\ CryptoIdle
    /\ FrameIdle

\* p_cwd holds the root argument
WithinRoot ==
    /\ p_result.done = FALSE
    /\ p_result' = [done |-> TRUE, within |-> ftp_path_is_within_root(p_input, p_cwd)]
    /\ UNCHANGED <<p_cwd, p_input, sessionVars, serverVars, poolVars, controlVars, cryptoVars, frame>>

WithinNext == WithinRoot

SpecWithin == WithinInit /\ [][WithinNext]_vars

\* C29: for absolute path and root, ftp_path_is_within_root returns 1 exactly
\* when root = "/", or path = root, or path begins with root and the
\* character right after that prefix is '/'; otherwise, as for a sibling that
\* only shares root as a string prefix, it returns 0.
C29_WithinRootExact ==
    (/\ p_result.done
     /\ p_input # <<>>
     /\ p_input[1] = "/")
        => LET path == p_input
               root == p_cwd
               inside == \/ root = <<"/">>
                         \/ path = root
                         \/ /\ Len(path) > Len(root)
                            /\ \A i \in 1..Len(root) : path[i] = root[i]
                            /\ path[Len(root) + 1] = "/"
           IN  /\ p_result.within \in {0, 1}
               /\ p_result.within = 1 <=> inside

\* the sibling "/ra" of the root "/r" is outside
C29_Witness ==
    /\ p_result.done
    /\ p_cwd = <<"/", "r">>
    /\ p_input = <<"/", "r", "a">>
    /\ p_result.within = 0

(***************************************************************************)
(* The slot pool with session threads that run commands.  frame.prev[i] is *)
(* the set of fields the latest command in slot i left different from the  *)
(* values of ftp_session_init (observation only), frame.commands the       *)
(* number of commands run so far.                                          *)
(***************************************************************************)
\* bound on the commands the sessions run altogether
MaxReuseCommands == 3

ReuseLines ==
    { <<"U","S","E","R"," ","f","t","p">>,
      <<"P","A","S","S"," ","r">>,
      <<"C","W","D"," ","a">>,
      <<"R","E","S","T"," ","2">>,
      <<"R","N","F","R"," ","a">>,
      <<"P","A","S","V">>,
      <<"A","U","T","H"," ","X","C","R","Y","P","T">> }

CleanFields ==
    {"authenticated", "user_ok", "auth_attempts", "crypto_active", "cwd",
     "rename_from", "restart_offset", "data_mode", "data_fd", "pasv_fd",
     "ctrl_rx_len", "ctrl_rx_off"}

\* the fields of s that differ from a session just initialised
Dirty(s) ==
    {f \in CleanFields :
        s[f] # ftp_session_init(s.ctrl_fd, PeerAddr, s.session_id, RootPath)[f]}

ReuseInit ==
    /\ ServerIdle
    /\ SessionIdle
    /\ PathIdle
    /\ PoolIdle
    /\ ControlIdle
    /\ CryptoIdle
    /\ frame = [pc |-> "pool", commands |-> 0, prev |-> [i \in 1..MaxSessions |-> {}]]

\* one iteration of the loop of ftp_session_thread on the slot of worker n:
\* the line is read (its last chunk holds the final LF and the first byte of
\* what the client sent next), dispatched, and counted
ReuseCommand(n) ==
    /\ workers[n].pc = "loop"
    /\ frame.commands < MaxReuseCommands
    /\ \E line \in ReuseLines : \E env \in Envs(line) :
          LET slot == workers[n].slot
              d == ftp_session_process_command(
                       [sessions[slot] EXCEPT !.ctrl_rx_len = 2,
                                              !.ctrl_rx_off = 1], line, env)
          IN  /\ sessions' = [sessions EXCEPT
                                 ![slot] = [d.s EXCEPT !.commands_processed = @ + 1]]
              /\ frame' = [frame EXCEPT !.prev[slot] = Dirty(d.s), !.commands = @ + 1]
    /\ UNCHANGED <<running, active_sessions, session_counter, acceptor, workers,
                   stopper, closed>>
    /\ UNCHANGED <<pathVars, sessionVars, poolVars, controlVars, cryptoVars>>

ReuseNext ==
    \/ AcceptLoopTest
    \/ AcceptConnection
    \/ AcceptFails
    \/ AcceptAllocate
    \/ AcceptInit
    \/ AcceptCreate
    \/ AcceptCreateFails
    \/ AcceptCount
    \/ \E n \in Connections : ReuseCommand(n)
    \/ \E n \in Connections : WorkerLeaveLoop(n)
    \/ \E n \in Connections : CleanupMark(n)
    \/ \E n \in Connections : CleanupData(n)
    \/ \E n \in Connections : CleanupCtrl(n)

SpecReuse == ReuseInit /\ [][ReuseNext]_vars

\* C40: a session thread that has not run a command yet finds in its slot
\* authenticated = 0, user_ok = 0, auth_attempts = 0, crypto.active = 0,
\* cwd = root, rename_from empty, restart_offset = 0, data_mode = None,
\* data_fd = pasv_fd = -1 and an empty control input buffer, whatever the
\* sessions before it in that slot did, and every command gets the replies it
\* gets in a session that ftp_session_init has just set up on the same
\* control socket.
C40_ReusedSlotStartsClean ==
    \A n \in Connections :
        (/\ workers[n].pc = "loop"
         /\ sessions[workers[n].slot].commands_processed = 0)
            => LET s == sessions[workers[n].slot]
                   fresh == [ftp_session_init(n, PeerAddr, s.session_id, RootPath)
                                EXCEPT !.ctrl_fd = s.ctrl_fd]
               IN  /\ s.authenticated = 0
                   /\ s.user_ok = 0
                   /\ s.auth_attempts = 0
                   /\ s.crypto_active = 0
                   /\ s.cwd = RootPath
                   /\ s.rename_from = <<>>
                   /\ s.restart_offset = 0
                   /\ s.data_mode = FTP_DATA_MODE_NONE
                   /\ s.data_fd = -1
                   /\ s.pasv_fd = -1
                   /\ s.ctrl_rx_len = s.ctrl_rx_off
                   /\ \A line \in ReuseLines : \A env \in Envs(line) :
                          ftp_session_process_command(s, line, env).replies
                              = ftp_session_process_command(fresh, line, env).replies

\* the second session of slot 1 is about to read its first command, after a
\* session that had logged in and opened a passive listener, with bytes of a
\* further line left in its input buffer
C40_Witness ==
    \E n \in Connections :
        /\ workers[n].pc = "loop"
        /\ workers[n].slot = 1
        /\ sessions[1].commands_processed = 0
        /\ sessions[1].session_id > 0
        /\ sessions[1].ctrl_fd = n
        /\ {"authenticated", "pasv_fd", "data_mode", "ctrl_rx_len"} \subseteq frame.prev[1]
        /\ sessions[1].authenticated = 0
        /\ sessions[1].pasv_fd = -1

(***************************************************************************)
(* pal_send_all(fd, buffer, length, flags): one call, PAL_SEND attempt by  *)
(* attempt.  frame.last is the outcome of the latest attempt.              *)
(***************************************************************************)
\* bound on the length argument
MaxSendLen == 8

SendInit ==
    /\ frame \in [pc : {"call"}, fd : {-1, 3}, length : 0..MaxSendLen,
                   total : {0}, last : {"none"}, ret : {0}]
    /\ PathIdle
    /\ SessionIdle
    /\ ServerIdle
    /\ PoolIdle
    /\ ControlIdle
    /\ CryptoIdle

SendUnchanged ==
    UNCHANGED <<pathVars, sessionVars, serverVars, poolVars, controlVars, cryptoVars>>

\* the parameter checks: -1 with EINVAL or EBADF
SendEnter ==
    /\ frame.pc = "call"
    /\ frame' = IF frame.length = 0 \/ frame.fd < 0
                THEN [frame EXCEPT !.pc = "done", !.ret = -1]
                ELSE [frame EXCEPT !.pc = "send"]
    /\ SendUnchanged

\* while (total < length): PAL_SEND takes n > 0 bytes
SendProgress ==
    /\ frame.pc = "send"
    /\ \E n \in 1..(frame.length - frame.total) :
          frame' = [frame EXCEPT !.total = @ + n, !.last = "sent",
                                 !.pc = IF frame.total + n < frame.length
                                        THEN "send" ELSE "done",
                                 !.ret = IF frame.total + n < frame.length
                                         THEN 0 ELSE frame.total + n]
    /\ SendUnchanged

\* PAL_SEND returns 0: EPIPE, -1
SendClosed ==
    /\ frame.pc = "send"
    /\ frame' = [frame EXCEPT !.pc = "done", !.ret = -1, !.last = "closed"]
    /\ SendUnchanged

\* errno == EINTR: continue
SendInterrupted ==
    /\ frame.pc = "send"
    /\ frame' = [frame EXCEPT !.last = "eintr"]
    /\ SendUnchanged

\* errno == EAGAIN or EWOULDBLOCK: usleep(1000), continue
SendWouldBlock ==
    /\ frame.pc = "send"
    /\ frame' = [frame EXCEPT !.pc = "sleep", !.last = "eagain"]
    /\ SendUnchanged

\* usleep returns; back to the loop test
SendSleep ==
    /\ frame.pc = "sleep"
    /\ frame' = [frame EXCEPT !.pc = "send"]
    /\ SendUnchanged

\* any other errno: -1
SendError ==
    /\ frame.pc = "send"
    /\ frame' = [frame EXCEPT !.pc = "done", !.ret = -1, !.last = "error"]
    /\ SendUnchanged

SendNext ==
    \/ SendEnter
    \/ SendProgress
    \/ SendClosed
    \/ SendInterrupted
    \/ SendWouldBlock
    \/ SendSleep
    \/ SendError

\* the calling thread is scheduled: it keeps making send attempts and
\* usleep returns
SpecSend ==
    /\ SendInit
    /\ [][SendNext]_vars
    /\ WF_vars(SendEnter)
    /\ WF_vars(SendProgress \/ SendClosed \/ SendInterrupted \/ SendWouldBlock \/ SendError)
    /\ WF_vars(SendSleep)

\* C33: a write to a socket whose peer never drains (every send attempt ends
\* with EAGAIN/EWOULDBLOCK) eventually returns to the caller: pal_send_all
\* retries only a bounded number of times.
C33_SendAllReturns ==
    ([](frame.last \in {"none", "eagain"})) => <>(frame.pc = "done")

(***************************************************************************)
(* rate_limit(session, bytes): one call.  Time is counted in ticks, of     *)
(* which TicksPerSecond make a second (nanoseconds in the source); the     *)
(* clock is seen through the time elapsed since rl_last_ns, and rl_last_ns *)
(* is 0 before the first call and 1 afterwards.                            *)
(***************************************************************************)
\* ticks per second
TicksPerSecond == 4

\* bound on FTP_TRANSFER_RATE_LIMIT_BPS and FTP_TRANSFER_RATE_BURST_BYTES
MaxRate == 4

\* bound on the bytes argument
MaxBytes == 6

\* cap = (burst != 0U) ? burst : rate
RateCap(f) == IF f.burst # 0 THEN f.burst ELSE f.rate

\* the refill: add = (elapsed * rate) / 1000000000, tokens = min(cap, tokens + add)
Refill(f, elapsed) ==
    LET add == (elapsed * f.rate) \div TicksPerSecond
        sum == f.rl_tokens + add
    IN  IF add > 0 THEN (IF sum > RateCap(f) THEN RateCap(f) ELSE sum) ELSE f.rl_tokens

\* the sleep: the time the missing tokens take, rounded up, at most 500 ms
WaitTicks(f) ==
    LET missing == f.bytes - f.rl_tokens
        wait == (missing * TicksPerSecond + f.rate - 1) \div f.rate
    IN  IF wait > TicksPerSecond \div 2 THEN TicksPerSecond \div 2 ELSE wait

\* the end of the function: rl_tokens -= need, or 0
Spend(f) == IF f.rl_tokens >= f.bytes THEN f.rl_tokens - f.bytes ELSE 0

RateInit ==
    /\ frame \in {f \in [pc : {"call"}, rate : 0..MaxRate, burst : 0..MaxRate,
                          bytes : 0..MaxBytes, rl_tokens : 0..MaxRate,
                          rl_last_ns : {0, 1}, stalled : {FALSE}] :
                     /\ f.rl_last_ns = 0 => f.rl_tokens = 0
                     /\ f.rl_last_ns # 0 => f.rate > 0 /\ f.rl_tokens <= RateCap(f)}
    /\ PathIdle
    /\ SessionIdle
    /\ ServerIdle
    /\ PoolIdle
    /\ ControlIdle
    /\ CryptoIdle

RateUnchanged ==
    UNCHANGED <<pathVars, sessionVars, serverVars, poolVars, controlVars, cryptoVars>>

\* up to the loop: the early returns, the first call (tokens = cap) or the
\* refill for the time elapsed since the last call
RateEnter ==
    /\ frame.pc = "call"
    /\ IF frame.bytes = 0 \/ frame.rate = 0
       THEN frame' = [frame EXCEPT !.pc = "done"]
       ELSE IF frame.rl_last_ns = 0
       THEN frame' = [frame EXCEPT !.pc = "test", !.rl_last_ns = 1,
                                   !.rl_tokens = RateCap(frame)]
       ELSE \E elapsed \in 0..TicksPerSecond :
              frame' = [frame EXCEPT !.pc = "test",
                                     !.rl_tokens = Refill(frame, elapsed)]
    /\ RateUnchanged

\* while (session->rl_tokens < need), and the end of the function
RateTest ==
    /\ frame.pc = "test"
    /\ frame' = IF frame.rl_tokens < frame.bytes
                THEN [frame EXCEPT !.pc = "sleep"]
                ELSE [frame EXCEPT !.pc = "done", !.rl_tokens = Spend(frame)]
    /\ RateUnchanged

\* usleep returns and the clock has advanced, at least by the time slept
RateWake ==
    /\ frame.pc = "sleep"
    /\ \E elapsed \in WaitTicks(frame)..(WaitTicks(frame) + 1) :
          /\ elapsed > 0
          /\ frame' = [frame EXCEPT !.pc = "test", !.rl_tokens = Refill(frame, elapsed)]
    /\ RateUnchanged

\* the clock has not advanced (or cannot be read): break
RateStalled ==
    /\ frame.pc = "sleep"
    /\ frame' = [frame EXCEPT !.pc = "done", !.stalled = TRUE, !.rl_tokens = Spend(frame)]
    /\ RateUnchanged

RateNext ==
    \/ RateEnter
    \/ RateTest
    \/ RateWake
    \/ RateStalled

\* the calling thread is scheduled and usleep returns
SpecRate ==
    /\ RateInit
    /\ [][RateNext]_vars
    /\ WF_vars(RateEnter)
    /\ WF_vars(RateTest)
    /\ WF_vars(RateWake \/ RateStalled)

\* C37: with rate limiting enabled, rate_limit(session, n) returns for every
\* n >= 1, also for n larger than the burst capacity, while the monotonic
\* clock keeps advancing.
C37_RateLimitReturns ==
    ([](~frame.stalled)) => <>(frame.pc = "done")

====
